---- MODULE Spec2Model ----
(***************************************************************************)
(* Ramp-metering control loop of Multimodal-DRL-RMC: the learned           *)
(* controller (RLController) and the baselines (AlwaysGreen, FixedCycle,   *)
(* ALINEA, PI-ALINEA) driving one SUMO simulator through SumoEnv.          *)
(*                                                                         *)
(* Units.  Simulated time is counted in simulator ticks of one second      *)
(* (sim_step_length = 1).  The feedback controllers compute green times    *)
(* rate * cycle / 3600 / sat_flow that are not whole seconds, so their     *)
(* timers and durations are kept in units of 1/SecUnits second, in which   *)
(* every value the code computes is an integer.  Occupancies are kept in   *)
(* units of 1/OccUnits percent.                                            *)
(***************************************************************************)
EXTENDS Integers, Sequences, FiniteSets, TLC

VARIABLES
    variant,          \* which controller class was constructed
    ramp_meter_id,    \* SumoEnv.ramp_meter_id: "None" when the net has no signal
    ds_detectors,     \* TRUE iff the downstream edge carries induction loops
    ctl,              \* the controller object's fields
    sim,              \* the simulator behind TraCI
    hist,             \* observer: locals of the last step(), ticks between rate updates
    trace,            \* what the last operation did, in order
    lastOp,           \* "init", "reset" or "step"
    outcome,          \* "ok": the operation returned; "raised": it raised
    done,             \* value of done() after the last operation
    detectors         \* what the induction loops and the on-ramp edge report

vars == <<variant, ramp_meter_id, ds_detectors, ctl, sim, hist, trace, lastOp, outcome,
          done, detectors>>

----------------------------------------------------------------------------
\* Bounds of the model.

\* number of episodes (reset() calls) explored
MaxEpisodes == 2

\* args["steps"], the episode length in seconds (3600 in utils.py), scaled down
EpisodeLen == 85

\* largest instantaneous vehicle count the on-ramp edge reports
MaxRampCount == 2

----------------------------------------------------------------------------
\* Program constants.

\* time units per second
SecUnits == 1800

\* occupancy units per percent
OccUnits == 2

CYCLE_DURATION_SEC == 40

green_time_actions_sec == <<5, 10, 15, 20, 25, 30, 35, 40>>

action_space_n == Len(green_time_actions_sec)

green_phase_index == 0

red_phase_index == 1

sim_step_length == 1

\* AlineaDsBaseline / PiAlineaDsBaseline parameters
CYCLE_LENGTH_SEC == CYCLE_DURATION_SEC * SecUnits

\* 16.5 percent
CRITICAL_OCCUPANCY_PERCENT == 33

KR == 60

KP == 60

KI == 20

MIN_METERING_RATE_VPH == 180

MAX_METERING_RATE_VPH == 1800

MIN_GREEN_TIME_SEC == 3 * SecUnits

MIN_RED_TIME_SEC == 0

\* RAMP_SATURATION_FLOW_VPS = 0.5 = SatFlowNum / SatFlowDen
SatFlowNum == 1

SatFlowDen == 2

Never == EpisodeLen + 1000

Variants == {"Learned", "Alinea", "PiAlinea", "FixedCycle", "AlwaysGreen"}

\* action indices handed to RLController.step, in and out of range
ActionInputs == -1 .. action_space_n

\* last-interval occupancies the downstream loops may report (0..100 percent)
OccReadings == {0, 16, 33, 40, 200}

----------------------------------------------------------------------------
\* Python builtins.

Min(a, b) == IF a <= b THEN a ELSE b

Max(a, b) == IF a >= b THEN a ELSE b

\* np.clip(x, lo, hi) = minimum(maximum(x, lo), hi)
Clip(x, lo, hi) == Min(Max(x, lo), hi)

----------------------------------------------------------------------------
\* The sensors.  A quantity that need not be a whole number (a mean, a flow,
\* a normalised value) is kept as a fraction [num, den] with den > 0.

Ratio(num, den) == [num |-> num, den |-> den]

\* the 0.0 the aggregators return when they have nothing to aggregate
Zero == Ratio(0, 1)

\* one induction loop: whether its queries fail with a TraCIException, the
\* vehicle count and the occupancy (in 1/OccUnits percent) of its last
\* interval, the vehicle count and the mean speed (m/s) of the last step
LoopReading(fails, interval_count, interval_occ, step_count, step_speed) ==
    [fails |-> fails, interval_count |-> interval_count, interval_occ |-> interval_occ,
     step_count |-> step_count, step_speed |-> step_speed]

\* no vehicle passed: SUMO reports the mean speed -1
Quiet == LoopReading(FALSE, 0, 0, 0, -1)

Flowing == LoopReading(FALSE, 12, 24 * OccUnits, 1, 30)

Dense == LoopReading(FALSE, 20, 60 * OccUnits, 2, 12)

\* readings above the configured maxima
Over == LoopReading(FALSE, 100, 120 * OccUnits, 1, 48)

Failed == LoopReading(TRUE, 0, 0, 0, 0)

\* for loop_id in loop_ids: total_vehicles += getLastIntervalVehicleNumber,
\* valid_loops += 1, a loop whose query fails being skipped
RECURSIVE FlowLoop(_, _, _)
FlowLoop(loop_ids, total_vehicles, valid_loops) ==
    IF loop_ids = <<>>
    THEN [total |-> total_vehicles, valid |-> valid_loops]
    ELSE IF Head(loop_ids).fails
         THEN FlowLoop(Tail(loop_ids), total_vehicles, valid_loops)
         ELSE FlowLoop(Tail(loop_ids), total_vehicles + Head(loop_ids).interval_count,
                       valid_loops + 1)

\* SumoEnv.get_loops_flow_interval, in vehicles per hour
GetLoopsFlowInterval(loop_ids, interval_duration_sec) ==
    IF loop_ids = <<>> \/ interval_duration_sec <= 0
    THEN Zero
    ELSE LET acc == FlowLoop(loop_ids, 0, 0)
         IN IF acc.valid > 0
            THEN Ratio(acc.total * 3600, interval_duration_sec)
            ELSE Zero

\* for loop_id in loop_ids: total_occupancy += getLastIntervalOccupancy,
\* valid_loops += 1, a loop whose query fails being skipped
RECURSIVE OccupancyLoop(_, _, _)
OccupancyLoop(loop_ids, total_occupancy, valid_loops) ==
    IF loop_ids = <<>>
    THEN [total |-> total_occupancy, valid |-> valid_loops]
    ELSE IF Head(loop_ids).fails
         THEN OccupancyLoop(Tail(loop_ids), total_occupancy, valid_loops)
         ELSE OccupancyLoop(Tail(loop_ids), total_occupancy + Head(loop_ids).interval_occ,
                            valid_loops + 1)

\* mutant: a loop whose query fails counts as a loop that reported 0
GetLoopsOccupancyIntervalOverAll(loop_ids) ==
    IF loop_ids = <<>>
    THEN Zero
    ELSE Ratio(OccupancyLoop(loop_ids, 0, 0).total, Len(loop_ids) * OccUnits)

\* SumoEnv.get_loops_occupancy_interval, in percent
GetLoopsOccupancyInterval(loop_ids) ==
    IF loop_ids = <<>>
    THEN Zero
    ELSE LET acc == OccupancyLoop(loop_ids, 0, 0)
         IN IF acc.valid > 0
            THEN Ratio(acc.total, acc.valid * OccUnits)
            ELSE Zero

\* mutant: every loop that saw a vehicle weighs the same
RECURSIVE SpeedLoopUnweighted(_, _, _)
SpeedLoopUnweighted(loop_ids, total_speed, total_flow) ==
    IF loop_ids = <<>>
    THEN [speed |-> total_speed, flow |-> total_flow]
    ELSE LET loop == Head(loop_ids)
         IN IF ~loop.fails /\ loop.step_count > 0 /\ loop.step_speed >= 0
            THEN SpeedLoopUnweighted(Tail(loop_ids), total_speed + loop.step_speed,
                                     total_flow + 1)
            ELSE SpeedLoopUnweighted(Tail(loop_ids), total_speed, total_flow)

\* for loop_id in loop_ids: if flow > 0 and speed >= 0: total_speed +=
\* speed * flow, total_flow += flow, a loop whose query fails being skipped
RECURSIVE SpeedLoop(_, _, _)
SpeedLoop(loop_ids, total_speed, total_flow) ==
    IF loop_ids = <<>>
    THEN [speed |-> total_speed, flow |-> total_flow]
    ELSE LET loop == Head(loop_ids)
         IN IF ~loop.fails /\ loop.step_count > 0 /\ loop.step_speed >= 0
            THEN SpeedLoop(Tail(loop_ids), total_speed + loop.step_speed * loop.step_count,
                           total_flow + loop.step_count)
            ELSE SpeedLoop(Tail(loop_ids), total_speed, total_flow)

\* mutant: an empty group yields the -1 SUMO reports when no vehicle passed
GetLoopsSpeedNoVehicleCode(loop_ids) ==
    LET acc == SpeedLoop(loop_ids, 0, 0)
    IN IF acc.flow > 0 THEN Ratio(acc.speed, acc.flow) ELSE Ratio(0 - 1, 1)

\* SumoEnv.get_loops_flow_weigthed_mean_speed, in m/s
GetLoopsFlowWeightedMeanSpeed(loop_ids) ==
    IF loop_ids = <<>>
    THEN Zero
    ELSE LET acc == SpeedLoop(loop_ids, 0, 0)
         IN IF acc.flow > 0 THEN Ratio(acc.speed, acc.flow) ELSE Zero

\* the TraCI queries one aggregation of each kind sends for a group: none
\* when the group is empty, else one per loop for the flow and for the
\* occupancy, and for the speed two per loop, one when the first fails
RECURSIVE SpeedQueries(_)
SpeedQueries(loop_ids) ==
    IF loop_ids = <<>>
    THEN 0
    ELSE (IF Head(loop_ids).fails THEN 1 ELSE 2) + SpeedQueries(Tail(loop_ids))

LoopQueries(loop_ids, interval_duration_sec) ==
    (IF loop_ids = <<>> \/ interval_duration_sec <= 0 THEN 0 ELSE Len(loop_ids))
    + Len(loop_ids) + SpeedQueries(loop_ids)

\* the sensors of a quiet road: three upstream loops, four in the merge
\* area, the loops of the downstream edge, the on-ramp edge, whose count
\* cycles through base .. base + amp, and the lanes of the downstream edge
QuietDetectors(ds_loops) ==
    [up |-> <<Quiet, Quiet, Quiet>>,
     bn |-> <<Quiet, Quiet, Quiet, Quiet>>,
     ds |-> ds_loops,
     ramp |-> [fails |-> FALSE, base |-> 0, amp |-> MaxRampCount],
     downstream_lanes |-> 3]

----------------------------------------------------------------------------
\* The running operation.  A handler is a function on a record m:
\*   m.c  the controller fields, m.s the simulator, m.h the observer,
\*   m.tr the events so far, m.raised whether an exception is propagating,
\*   m.endAt / m.faultAt the simulated times at which the simulator starts to
\*   report no expected vehicle / at which simulationStep fails,
\*   m.q the offset of the on-ramp counts sampled during the operation.

Emit(m, name, arg) == [m EXCEPT !.tr = Append(@, <<name, arg>>)]

\* the observer at construction and at the start of an episode:
\*   chosen_green_time_sec, red_time_sec  locals of the last RLController.step
\*   updates             rate updates made in this episode
\*   ticks_since_update  simulator ticks since the last rate update
\*   update_gap          ticks_since_update as it was at the last rate update
\*   unclipped_rate      the rate of the last update before clipping
\*   occ_before          the stored Occ(k-2) when the last update began
\*   tick_failed         a simulationStep of the last operation failed
\*   phase_at_start      the phase last commanded when the operation began
\*   action_index        the index handed to the last RLController.step
\*   ticks_after_end     ticks the last operation issued although the
\*                       simulator already reported no expected vehicle
\*   ds_queries          loop queries the last aggregation sent for the
\*                       downstream group
\*   reset_reading       the downstream occupancy the loops reported to the
\*                       reset() that has just returned (-1 otherwise)
\*   prior               what the episode before the reset() that has just
\*                       returned had left behind: whether it ran for a cycle
\*                       or more, its metering rate and its last action
\*   green_ticks, red_ticks  ticks of the ALINEA / PI-ALINEA cycle in progress
\*                       made while the last phase commanded was Green / Red
\*   red_commands        Red commands of the cycle in progress
\*   steps               RLController.step calls of the episode, counted up to
\*                       StepCap
NoPrior == [ran |-> FALSE, rate |-> 0, action |-> 0]

\* the count of step() calls stops here: one more than a whole episode needs
StepCap == EpisodeLen \div CYCLE_DURATION_SEC + 2

NewHist ==
    [chosen_green_time_sec |-> 0, red_time_sec |-> 0,
     updates |-> 0, ticks_since_update |-> 0, update_gap |-> 0,
     unclipped_rate |-> 0, occ_before |-> 0,
     tick_failed |-> FALSE, phase_at_start |-> -1,
     action_index |-> 0, ticks_after_end |-> 0, ds_queries |-> 0,
     reset_reading |-> -1, prior |-> NoPrior,
     green_ticks |-> 0, red_ticks |-> 0, red_commands |-> 0, steps |-> 0]

\* SumoEnv.is_simulation_end: getMinExpectedNumber() <= 0
IsSimulationEnd(m) == m.s.ended \/ m.s.time >= m.endAt

\* SumoEnv.get_current_time
GetCurrentTime(m) == m.s.time

\* SumoEnv.simulation_step: a TraCI error is printed and raised again
SimulationStep(m) ==
    IF m.s.time = m.faultAt
    THEN [m EXCEPT !.raised = TRUE, !.h.tick_failed = TRUE]
    ELSE Emit([m EXCEPT !.s.time = @ + sim_step_length,
                        !.h.ticks_since_update = @ + 1,
                        !.h.ticks_after_end =
                            IF IsSimulationEnd(m) THEN @ + 1 ELSE @],
              "simulationStep", 0)

\* SumoEnv.set_phase: forwarded to the simulator unconditionally
SetPhase(m, tl_id, phase_index) ==
    IF tl_id = "None"
    THEN [m EXCEPT !.raised = TRUE]
    ELSE Emit([m EXCEPT !.s.phase = phase_index], "setPhase", phase_index)

\* mutant: no duration is sent after a Red command
SetPhaseDurationGreenOnly(m, tl_id, duration) ==
    IF tl_id = "None"
    THEN [m EXCEPT !.raised = TRUE]
    ELSE IF m.s.phase = red_phase_index
         THEN m
         ELSE Emit(m, "setPhaseDuration", duration)

\* SumoEnv.set_phase_duration
SetPhaseDuration(m, tl_id, duration) ==
    IF tl_id = "None"
    THEN [m EXCEPT !.raised = TRUE]
    ELSE Emit(m, "setPhaseDuration", duration)

\* SumoEnv.get_edge_ls_queue_length_vehicles(ON_RAMP_EDGE): the vehicle count
\* of the edge, 0 when the query fails
GetEdgeLsQueueLengthVehicles(m) ==
    IF detectors.ramp.fails
    THEN 0
    ELSE detectors.ramp.base + ((m.q + m.s.time) % (detectors.ramp.amp + 1))

\* SumoEnv.simulation_reset: stop(), ep_count += 1, start()
SimulationReset(m) ==
    [m EXCEPT !.c.ep_count = @ + 1,
              !.s = [time |-> 0, ended |-> FALSE, phase |-> -1],
              !.h = [NewHist EXCEPT
                        !.prior = [ran |-> m.s.time >= CYCLE_DURATION_SEC,
                                   rate |-> m.c.current_metering_rate_vph,
                                   action |-> m.c.last_action_value_sec]]]

\* the operation starts: no event yet, no exception, the inputs of this call
Begin(endAfter, faultAfter, q) ==
    [c |-> ctl, s |-> sim,
     h |-> [hist EXCEPT !.tick_failed = FALSE, !.phase_at_start = sim.phase,
                        !.ticks_after_end = 0, !.reset_reading = -1, !.prior = NoPrior],
     tr |-> <<>>, raised |-> FALSE,
     endAt |-> IF endAfter = Never THEN Never ELSE sim.time + endAfter,
     faultAt |-> IF faultAfter = Never THEN Never ELSE sim.time + faultAfter,
     q |-> q]

\* a reset restarts the simulator, so the inputs count from time 0
BeginReset(endAfter, faultAfter, q) ==
    [Begin(endAfter, faultAfter, q) EXCEPT !.endAt = endAfter, !.faultAt = faultAfter]

\* mutant: the episode length is not looked at
DoneIgnoresTime(m) == IsSimulationEnd(m)

\* BaselineMeta.done / RLController.done
Done(m) == IsSimulationEnd(m) \/ GetCurrentTime(m) >= EpisodeLen

\* the operation ends: the object, the simulator and what the caller sees
Commit(m, op) ==
    /\ ctl' = m.c
    /\ sim' = [m.s EXCEPT !.ended = IsSimulationEnd(m)]
    /\ hist' = m.h
    /\ trace' = m.tr
    /\ lastOp' = op
    /\ outcome' = IF m.raised THEN "raised" ELSE "ok"
    /\ done' = (~m.raised /\ Done(m))
    /\ UNCHANGED <<variant, ramp_meter_id, ds_detectors, detectors>>

----------------------------------------------------------------------------
\* Construction.

\* BaselineMeta.__init__: phase indices are -1 when the net has no signal;
\* RLController.__init__ sets them to 0 and 1 whatever the net holds
PhaseIndex(v, tl_id, index) ==
    IF v = "Learned" \/ tl_id # "None" THEN index ELSE -1

\* the fields the constructors set
NewController(v, tl_id) ==
    [ep_count |-> 0,
     green_phase_index |-> PhaseIndex(v, tl_id, green_phase_index),
     red_phase_index |-> PhaseIndex(v, tl_id, red_phase_index),
     \* RLController
     last_action_value_sec |-> green_time_actions_sec[1],
     sum_queue |-> 0,
     processed_flow_upstream_vph |-> Zero,
     processed_flow_merging_vph |-> Zero,
     processed_mainline_flow_downstream_vph |-> Zero,
     processed_occ_upstream_percent |-> Zero,
     processed_occ_bottleneck_percent |-> Zero,
     processed_occ_downstream_percent |-> Zero,
     processed_speed_upstream_mps |-> Zero,
     processed_speed_bottleneck_mps |-> Zero,
     processed_mainline_speed_downstream_mps |-> Zero,
     processed_ramp_queue_veh |-> Zero,
     processed_flow_lane_0_merging_vph |-> Zero,
     processed_occ_lane_0_bottleneck_percent |-> Zero,
     processed_speed_lane_0_bottleneck_mps |-> Zero,
     processed_flow_lane_0_upstream_vph |-> Zero,
     processed_occ_lane_0_upstream_percent |-> Zero,
     processed_speed_lane_0_upstream_mps |-> Zero,
     \* AlineaDsBaseline, PiAlineaDsBaseline
     current_metering_rate_vph |-> (MIN_METERING_RATE_VPH + MAX_METERING_RATE_VPH) \div 2,
     time_since_last_decision_sec |-> 0,
     current_green_time_sec |-> 0,
     current_red_time_sec |-> CYCLE_LENGTH_SEC,
     is_in_green_phase_segment |-> FALSE,
     time_in_current_phase_segment_sec |-> 0,
     last_measured_downstream_occ |-> 0,
     prev_measured_downstream_occ |-> 0,
     \* PiAlineaDsBaseline: the gains, args "pialinea_kp" and "pialinea_ki"
     KP |-> KP,
     KI |-> KI,
     \* FixedCycleBaseline
     current_phase_is_green |-> TRUE,
     time_in_current_phase_steps |-> 0]

Init ==
    /\ variant \in Variants
    /\ ramp_meter_id \in {"ramp_meter", "None"}
    /\ ds_detectors \in BOOLEAN
    /\ detectors = QuietDetectors(IF ds_detectors THEN <<Quiet>> ELSE <<>>)
    /\ ctl = NewController(variant, ramp_meter_id)
    /\ sim = [time |-> 0, ended |-> FALSE, phase |-> -1]
    /\ hist = NewHist
    /\ trace = <<>>
    /\ lastOp = "init"
    /\ outcome = "ok"
    /\ done = FALSE

\* the caller resets before the first step and steps until done or an exception
CanReset == ctl.ep_count < MaxEpisodes

CanStep == lastOp # "init" /\ outcome = "ok" /\ ~done

----------------------------------------------------------------------------
\* RLController (the learned path).

\* mutant: the queue accumulator is carried into the next cycle
ResetCycleAggregatorsKeepsQueue(m) == Emit(m, "resetCycleAggregators", 0)

\* _reset_cycle_aggregators
ResetCycleAggregators(m) ==
    Emit([m EXCEPT !.c.sum_queue = 0], "resetCycleAggregators", 0)

\* _collect_data_at_cycle_end: one aggregation of every detector group, and
\* processed_ramp_queue_veh = sum_queue / CYCLE_DURATION_SEC
CollectDataAtCycleEnd(m) ==
    LET up == detectors.up
        bn == detectors.bn
        ds == detectors.ds
    IN Emit([m EXCEPT
                !.c.processed_flow_upstream_vph =
                    GetLoopsFlowInterval(up, CYCLE_DURATION_SEC),
                !.c.processed_flow_merging_vph =
                    GetLoopsFlowInterval(bn, CYCLE_DURATION_SEC),
                !.c.processed_mainline_flow_downstream_vph =
                    GetLoopsFlowInterval(ds, CYCLE_DURATION_SEC),
                !.c.processed_occ_upstream_percent = GetLoopsOccupancyInterval(up),
                !.c.processed_occ_bottleneck_percent = GetLoopsOccupancyInterval(bn),
                !.c.processed_occ_downstream_percent = GetLoopsOccupancyInterval(ds),
                !.c.processed_speed_upstream_mps = GetLoopsFlowWeightedMeanSpeed(up),
                !.c.processed_speed_bottleneck_mps = GetLoopsFlowWeightedMeanSpeed(bn),
                !.c.processed_mainline_speed_downstream_mps =
                    GetLoopsFlowWeightedMeanSpeed(ds),
                !.c.processed_ramp_queue_veh =
                    IF CYCLE_DURATION_SEC > 0
                    THEN Ratio(m.c.sum_queue, CYCLE_DURATION_SEC)
                    ELSE Zero,
                !.c.processed_flow_lane_0_merging_vph =
                    GetLoopsFlowInterval(<<bn[1]>>, CYCLE_DURATION_SEC),
                !.c.processed_occ_lane_0_bottleneck_percent =
                    GetLoopsOccupancyInterval(<<bn[1]>>),
                !.c.processed_speed_lane_0_bottleneck_mps =
                    GetLoopsFlowWeightedMeanSpeed(<<bn[1]>>),
                !.c.processed_flow_lane_0_upstream_vph =
                    GetLoopsFlowInterval(<<up[2]>>, CYCLE_DURATION_SEC),
                !.c.processed_occ_lane_0_upstream_percent =
                    GetLoopsOccupancyInterval(<<up[2]>>),
                !.c.processed_speed_lane_0_upstream_mps =
                    GetLoopsFlowWeightedMeanSpeed(<<up[2]>>),
                !.h.ds_queries = LoopQueries(ds, CYCLE_DURATION_SEC)],
            "collectDataAtCycleEnd", 0)

\* mutant: one tick too many
NumStepsOffByOne(seconds) == seconds \div sim_step_length + 1

\* int(round(seconds / sim_step_length))
NumSteps(seconds) == seconds \div sim_step_length

\* mutant: the loop does not ask the simulator whether it has finished
RECURSIVE TickLoopNoBreak(_, _, _)
TickLoopNoBreak(n, m, sampling) ==
    IF n = 0 \/ m.raised
    THEN m
    ELSE LET m1 == SimulationStep(m)
             m2 == IF m1.raised \/ ~sampling
                   THEN m1
                   ELSE Emit([m1 EXCEPT !.c.sum_queue = @ + GetEdgeLsQueueLengthVehicles(m1)],
                             "queueSample", GetEdgeLsQueueLengthVehicles(m1))
         IN TickLoopNoBreak(n - 1, m2, sampling)

\* for _ in range(n): if is_simulation_end(): break; simulation_step();
\* and, in step(), sum_queue += get_edge_ls_queue_length_vehicles(ON_RAMP_EDGE)
RECURSIVE TickLoop(_, _, _)
TickLoop(n, m, sampling) ==
    IF n = 0 \/ m.raised \/ IsSimulationEnd(m)
    THEN m
    ELSE LET m1 == SimulationStep(m)
             m2 == IF m1.raised \/ ~sampling
                   THEN m1
                   ELSE Emit([m1 EXCEPT !.c.sum_queue = @ + GetEdgeLsQueueLengthVehicles(m1)],
                             "queueSample", GetEdgeLsQueueLengthVehicles(m1))
         IN TickLoop(n - 1, m2, sampling)

\* seconds simulated by reset() before the first observation
InitSeconds == 5

\* num_init_steps = int(round(max(1.0, 5.0 / sim_step_length)))
NumInitSteps == Max(1, InitSeconds \div sim_step_length)

\* mutant: reset() leaves the last action as the previous episode left it
LastActionKept(c) == c.last_action_value_sec

\* reset(): last_action_value_sec = green_time_actions_sec[0]
LastActionAtReset(c) == green_time_actions_sec[1]

\* RLController.reset
RLResetBody(m0) ==
    LET m1 == ResetCycleAggregators(SimulationReset(m0))
        m2 == [m1 EXCEPT !.c.last_action_value_sec = LastActionAtReset(m1.c)]
        m3 == IF ramp_meter_id # "None" /\ m2.c.red_phase_index # -1
              THEN SetPhaseDuration(SetPhase(m2, ramp_meter_id, m2.c.red_phase_index),
                                    ramp_meter_id, CYCLE_DURATION_SEC * SecUnits)
              ELSE m2
        m4 == TickLoop(NumInitSteps, m3, FALSE)
    IN IF m4.raised THEN m4 ELSE CollectDataAtCycleEnd(m4)

\* mutant: an index out of range selects the first entry of the menu
ClampActionToFirst(action_index) ==
    IF ~(0 <= action_index /\ action_index < action_space_n)
    THEN 0
    ELSE action_index

\* np.clip(action_index, 0, action_space_n - 1) when the index is out of range
ClampAction(action_index) ==
    IF ~(0 <= action_index /\ action_index < action_space_n)
    THEN Clip(action_index, 0, action_space_n - 1)
    ELSE action_index

\* red_time_sec = CYCLE_DURATION_SEC - chosen_green_time_sec, floored at 0
RedTime(chosen_green_time_sec) ==
    IF CYCLE_DURATION_SEC - chosen_green_time_sec < 0
    THEN 0
    ELSE CYCLE_DURATION_SEC - chosen_green_time_sec

\* mutant: the Green segment does not look at ramp_meter_id
GreenSegmentUnguarded(m, chosen_green_time_sec) ==
    IF m.c.green_phase_index # -1 /\ chosen_green_time_sec > 0
    THEN TickLoop(NumSteps(chosen_green_time_sec),
                  SetPhaseDuration(SetPhase(m, ramp_meter_id, m.c.green_phase_index),
                                   ramp_meter_id, chosen_green_time_sec * SecUnits),
                  TRUE)
    ELSE m

\* the Green segment of RLController.step
GreenSegment(m, chosen_green_time_sec) ==
    IF ramp_meter_id # "None" /\ m.c.green_phase_index # -1 /\ chosen_green_time_sec > 0
    THEN TickLoop(NumSteps(chosen_green_time_sec),
                  SetPhaseDuration(SetPhase(m, ramp_meter_id, m.c.green_phase_index),
                                   ramp_meter_id, chosen_green_time_sec * SecUnits),
                  TRUE)
    ELSE m

\* the Red segment of RLController.step
RedSegment(m, red_time_sec) ==
    IF m.raised
    THEN m
    ELSE IF ramp_meter_id # "None" /\ m.c.red_phase_index # -1 /\ red_time_sec > 0
         THEN TickLoop(NumSteps(red_time_sec),
                       SetPhaseDuration(SetPhase(m, ramp_meter_id, m.c.red_phase_index),
                                        ramp_meter_id, red_time_sec * SecUnits),
                       TRUE)
         ELSE m

\* RLController.step
RLStepBody(m0, action_index) ==
    LET chosen_green_time_sec == green_time_actions_sec[ClampAction(action_index) + 1]
        red_time_sec == RedTime(chosen_green_time_sec)
        m1 == [m0 EXCEPT !.c.last_action_value_sec = chosen_green_time_sec,
                         !.h.chosen_green_time_sec = chosen_green_time_sec,
                         !.h.action_index = action_index,
                         !.h.steps = Min(@ + 1, StepCap),
                         !.h.red_time_sec = red_time_sec]
        m2 == RedSegment(GreenSegment(ResetCycleAggregators(m1), chosen_green_time_sec),
                         red_time_sec)
    IN IF m2.raised THEN m2 ELSE CollectDataAtCycleEnd(m2)

----------------------------------------------------------------------------
\* Observation and reward of the learned path, functions of the controller's
\* fields c.  A normalised term is a fraction; the reward, a weighted sum of
\* terms, is kept in units of 1/(WeightUnits * NormUnits), in which every
\* term the sensors of the model can produce is a whole number.

\* SumoEnv normalisation constants
FREEFLOW_SPEED_MPS == 35

MAX_RAMP_QUEUE_VEH == 25

MAX_LANE_FLOW_VPH == 1900

MAX_FLOW_UPSTREAM_VPH == 5490

MAX_FLOW_MERGING_VPH == 5490

MAX_OCCUPANCY_PERCENT == 100

observation_space_n == 14

\* units per 1.0 of a normalised term
NormUnits == 588000

\* units per 1.0 of a weight
WeightUnits == 2

\* the weights of _calculate_reward: 1.5, 1.0, 0.5, 2.0, 1.0, 1.0, 20.0
w_speed_merge == 3

w_speed_up == 2

w_speed_down == 1

w_occ_bottle == 4

w_occ_upstream == 2

w_queue == 2

w_spillback == 40

\* x / k for a whole number k > 0
DivideBy(x, k) == Ratio(x.num, x.den * k)

\* -1.0 * x
Negated(x) == Ratio(0 - x.num, x.den)

\* mutant: only the lower end is clipped
NpClipUnitNoCeiling(x) ==
    IF x.num < 0 THEN Zero ELSE x

\* np.clip(x, 0, 1)
NpClipUnit(x) ==
    IF x.num < 0 THEN Zero ELSE IF x.num > x.den THEN Ratio(1, 1) ELSE x

\* the divisor "maximum if maximum > 0 else 1.0"
Positive(maximum) == IF maximum > 0 THEN maximum ELSE 1

\* _get_current_observation
GetCurrentObservation(c) ==
    <<NpClipUnit(DivideBy(c.processed_flow_upstream_vph, MAX_FLOW_UPSTREAM_VPH)),
      NpClipUnit(DivideBy(c.processed_flow_merging_vph, MAX_FLOW_MERGING_VPH)),
      NpClipUnit(DivideBy(c.processed_occ_upstream_percent, MAX_OCCUPANCY_PERCENT)),
      NpClipUnit(DivideBy(c.processed_speed_upstream_mps, Positive(FREEFLOW_SPEED_MPS))),
      NpClipUnit(DivideBy(c.processed_occ_bottleneck_percent, MAX_OCCUPANCY_PERCENT)),
      NpClipUnit(DivideBy(c.processed_speed_bottleneck_mps, Positive(FREEFLOW_SPEED_MPS))),
      NpClipUnit(DivideBy(c.processed_ramp_queue_veh, Positive(MAX_RAMP_QUEUE_VEH))),
      NpClipUnit(DivideBy(c.processed_flow_lane_0_merging_vph,
                          MAX_LANE_FLOW_VPH * MAX_LANE_FLOW_VPH)),
      NpClipUnit(DivideBy(c.processed_flow_lane_0_upstream_vph,
                          MAX_LANE_FLOW_VPH * MAX_LANE_FLOW_VPH)),
      NpClipUnit(DivideBy(c.processed_occ_lane_0_bottleneck_percent, MAX_OCCUPANCY_PERCENT)),
      NpClipUnit(DivideBy(c.processed_speed_lane_0_bottleneck_mps,
                          Positive(FREEFLOW_SPEED_MPS))),
      NpClipUnit(DivideBy(c.processed_occ_lane_0_upstream_percent, MAX_OCCUPANCY_PERCENT)),
      NpClipUnit(DivideBy(c.processed_speed_lane_0_upstream_mps,
                          Positive(FREEFLOW_SPEED_MPS))),
      NpClipUnit(Ratio(c.last_action_value_sec, Positive(CYCLE_DURATION_SEC)))>>

\* _reward_outflow_speed
RewardOutflowSpeed(c) ==
    NpClipUnit(DivideBy(c.processed_mainline_speed_downstream_mps,
                        Positive(FREEFLOW_SPEED_MPS)))

\* _reward_upstream_speed
RewardUpstreamSpeed(c) ==
    NpClipUnit(DivideBy(c.processed_speed_upstream_mps, Positive(FREEFLOW_SPEED_MPS)))

\* _reward_merging_speed
RewardMergingSpeed(c) ==
    NpClipUnit(DivideBy(c.processed_speed_bottleneck_mps, Positive(FREEFLOW_SPEED_MPS)))

\* _penalty_bottleneck_occ
PenaltyBottleneckOcc(c) ==
    Negated(NpClipUnit(DivideBy(c.processed_occ_bottleneck_percent,
                                Positive(MAX_OCCUPANCY_PERCENT))))

\* _penalty_upstream_occ
PenaltyUpstreamOcc(c) ==
    Negated(NpClipUnit(DivideBy(c.processed_occ_upstream_percent,
                                Positive(MAX_OCCUPANCY_PERCENT))))

\* _reward_throughput
RewardThroughput(c) ==
    LET max_possible_throughput ==
            IF detectors.downstream_lanes > 0
            THEN MAX_LANE_FLOW_VPH * detectors.downstream_lanes
            ELSE MAX_LANE_FLOW_VPH
    IN NpClipUnit(DivideBy(c.processed_mainline_flow_downstream_vph,
                           Positive(max_possible_throughput)))

\* _penalty_ramp_queue
PenaltyRampQueue(c) ==
    Negated(NpClipUnit(DivideBy(c.processed_ramp_queue_veh, Positive(MAX_RAMP_QUEUE_VEH))))

\* mutant: the spillback zone starts at an empty ramp
PenaltySpillbackFromZero(c) ==
    Negated(NpClipUnit(DivideBy(c.processed_ramp_queue_veh, Positive(MAX_RAMP_QUEUE_VEH))))

\* _penalty_spillback: with the threshold 0.9 * MAX_RAMP_QUEUE_VEH, 0 up to
\* the threshold, then -clip((queue - threshold) / (MAX - threshold), 0, 1)
PenaltySpillback(c) ==
    LET queue == c.processed_ramp_queue_veh
    IN IF 10 * queue.num > 9 * MAX_RAMP_QUEUE_VEH * queue.den
       THEN Negated(NpClipUnit(Ratio(10 * queue.num - 9 * MAX_RAMP_QUEUE_VEH * queue.den,
                                     MAX_RAMP_QUEUE_VEH * queue.den)))
       ELSE Zero

\* a term in units of 1/NormUnits
InNormUnits(x) == (x.num * NormUnits) \div x.den

\* mutant: spillback weighs as much as the ramp queue
CalculateRewardLightSpillback(c) ==
    w_speed_merge * InNormUnits(RewardMergingSpeed(c))
    + w_speed_up * InNormUnits(RewardUpstreamSpeed(c))
    + w_speed_down * InNormUnits(RewardOutflowSpeed(c))
    + w_occ_bottle * InNormUnits(PenaltyBottleneckOcc(c))
    + w_occ_upstream * InNormUnits(PenaltyUpstreamOcc(c))
    + w_queue * InNormUnits(PenaltyRampQueue(c))
    + w_queue * InNormUnits(PenaltySpillback(c))

\* _calculate_reward
CalculateReward(c) ==
    w_speed_merge * InNormUnits(RewardMergingSpeed(c))
    + w_speed_up * InNormUnits(RewardUpstreamSpeed(c))
    + w_speed_down * InNormUnits(RewardOutflowSpeed(c))
    + w_occ_bottle * InNormUnits(PenaltyBottleneckOcc(c))
    + w_occ_upstream * InNormUnits(PenaltyUpstreamOcc(c))
    + w_queue * InNormUnits(PenaltyRampQueue(c))
    + w_spillback * InNormUnits(PenaltySpillback(c))

\* the sub-term entries of the info dict step() returns, each with the
\* method whose value it holds
InfoSubTerms ==
    [reward_outflow_speed_comp |-> "_reward_outflow_speed",
     reward_throughput_comp |-> "_reward_throughput",
     penalty_ramp_queue_comp |-> "_penalty_ramp_queue",
     penalty_bottleneck_occ_comp |-> "_penalty_bottleneck_occ",
     penalty_spillback_comp |-> "_penalty_spillback"]

\* info_for_this_step: the snapshot fields, the chosen green time and the
\* sub-term entries
InfoForThisStep(c, chosen_green_time_sec) ==
    [mainline_flow_upstream |-> c.processed_flow_upstream_vph,
     mainline_occ_upstream_percent |-> c.processed_occ_upstream_percent,
     mainline_speed_upstream |-> c.processed_speed_upstream_mps,
     mainline_flow_mergeArea |-> c.processed_flow_merging_vph,
     mainline_occ_mergeArea_percent |-> c.processed_occ_bottleneck_percent,
     mainline_speed_mergeArea |-> c.processed_speed_bottleneck_mps,
     mainline_flow_downstream |-> c.processed_mainline_flow_downstream_vph,
     mainline_speed_downstream |-> c.processed_mainline_speed_downstream_mps,
     mainline_occ_downstream_percent |-> c.processed_occ_downstream_percent,
     ramp_queue_veh |-> c.processed_ramp_queue_veh,
     chosen_green_time_sec |-> Ratio(chosen_green_time_sec, 1),
     reward_outflow_speed_comp |-> RewardOutflowSpeed(c),
     reward_throughput_comp |-> RewardThroughput(c),
     penalty_ramp_queue_comp |-> PenaltyRampQueue(c),
     penalty_bottleneck_occ_comp |-> PenaltyBottleneckOcc(c),
     penalty_spillback_comp |-> PenaltySpillback(c)]

----------------------------------------------------------------------------
\* AlwaysGreenBaseline.

\* AlwaysGreenBaseline.reset
AlwaysGreenResetBody(m0) ==
    LET m1 == SimulationReset(m0)
    IN IF ramp_meter_id # "None" /\ m1.c.green_phase_index # -1
       THEN SetPhaseDuration(SetPhase(m1, ramp_meter_id, m1.c.green_phase_index),
                             ramp_meter_id, (EpisodeLen + 100) * SecUnits)
       ELSE m1

\* AlwaysGreenBaseline.step
AlwaysGreenStepBody(m0) == SimulationStep(m0)

----------------------------------------------------------------------------
\* FixedCycleBaseline.

\* seconds of Green and of Red
FixedSeconds == 5

\* tg_duration_steps = tr_duration_steps = int(5 / sim_step_length)
tg_duration_steps == FixedSeconds \div sim_step_length

tr_duration_steps == FixedSeconds \div sim_step_length

\* FixedCycleBaseline.reset
FixedCycleResetBody(m0) ==
    LET m1 == SimulationReset(m0)
    IN IF ramp_meter_id # "None" /\ m1.c.green_phase_index # -1
       THEN SetPhaseDuration(
                SetPhase([m1 EXCEPT !.c.current_phase_is_green = TRUE,
                                    !.c.time_in_current_phase_steps = 0],
                         ramp_meter_id, m1.c.green_phase_index),
                ramp_meter_id, tg_duration_steps * sim_step_length * SecUnits)
       ELSE m1

\* FixedCycleBaseline.step
FixedCycleStepBody(m0) ==
    IF ramp_meter_id = "None" \/ m0.c.green_phase_index = -1
    THEN SimulationStep(m0)
    ELSE LET m1 == [m0 EXCEPT !.c.time_in_current_phase_steps = @ + 1]
             m2 == IF m1.c.current_phase_is_green
                   THEN IF m1.c.time_in_current_phase_steps >= tg_duration_steps
                        THEN [SetPhaseDuration(
                                  SetPhase(m1, ramp_meter_id, m1.c.red_phase_index),
                                  ramp_meter_id, tr_duration_steps * sim_step_length * SecUnits)
                              EXCEPT !.c.current_phase_is_green = FALSE,
                                     !.c.time_in_current_phase_steps = 0]
                        ELSE m1
                   ELSE IF m1.c.time_in_current_phase_steps >= tr_duration_steps
                        THEN [SetPhaseDuration(
                                  SetPhase(m1, ramp_meter_id, m1.c.green_phase_index),
                                  ramp_meter_id, tg_duration_steps * sim_step_length * SecUnits)
                              EXCEPT !.c.current_phase_is_green = TRUE,
                                     !.c.time_in_current_phase_steps = 0]
                        ELSE m1
         IN SimulationStep(m2)

----------------------------------------------------------------------------
\* AlineaDsBaseline and PiAlineaDsBaseline.

\* _get_downstream_occupancy: the critical occupancy when the group is empty,
\* else the loops' last-interval occupancy
GetDownstreamOccupancy(reading) ==
    IF ~ds_detectors THEN CRITICAL_OCCUPANCY_PERCENT ELSE reading

\* mutant: the critical occupancy of the older definition, 14.0 percent
AlineaUnclippedCrit14(rate, occ) ==
    rate + (KR * (14 * OccUnits - occ)) \div OccUnits

\* ALINEA: rate + KR * (occ_crit - occ)
AlineaUnclipped(rate, occ) ==
    rate + (KR * (CRITICAL_OCCUPANCY_PERCENT - occ)) \div OccUnits

\* mutant: the lower clamp is missing
AlineaRateNoFloor(rate, occ) ==
    Min(AlineaUnclipped(rate, occ), MAX_METERING_RATE_VPH)

\* ALINEA: max(rate_min, min(new_metering_rate_vph, rate_max))
AlineaRate(rate, occ) ==
    Max(MIN_METERING_RATE_VPH, Min(AlineaUnclipped(rate, occ), MAX_METERING_RATE_VPH))

\* PI-ALINEA with the gains kp and ki:
\* rate + KP * (occ_prev - occ) + KI * (occ_crit - occ)
PiAlineaUnclippedWith(kp, ki, rate, prev_occ, occ) ==
    rate + (kp * (prev_occ - occ) + ki * (CRITICAL_OCCUPANCY_PERCENT - occ)) \div OccUnits

\* PI-ALINEA: np.clip(current_metering_rate_vph + rate_change, rate_min, rate_max)
PiAlineaRateWith(kp, ki, rate, prev_occ, occ) ==
    Clip(PiAlineaUnclippedWith(kp, ki, rate, prev_occ, occ),
         MIN_METERING_RATE_VPH, MAX_METERING_RATE_VPH)

\* the same with the default gains
PiAlineaUnclipped(rate, prev_occ, occ) == PiAlineaUnclippedWith(KP, KI, rate, prev_occ, occ)

PiAlineaRate(rate, prev_occ, occ) == PiAlineaRateWith(KP, KI, rate, prev_occ, occ)

\* calculated_tg_sec for a saturation flow of num / den vehicles per second:
\* rate * (cycle / 3600) / sat_flow, MIN_GREEN when sat_flow <= 0
CalculatedGreenAt(rate, num, den) ==
    IF num <= 0
    THEN MIN_GREEN_TIME_SEC
    ELSE (rate * CYCLE_LENGTH_SEC * den) \div (3600 * num)

\* calculated_tg_sec with RAMP_SATURATION_FLOW_VPS as configured
CalculatedGreen(rate) == CalculatedGreenAt(rate, SatFlowNum, SatFlowDen)

\* mutant: the vehicles per cycle are taken for the seconds of Green
AlineaGreenIgnoresSatFlow(rate) ==
    Max(MIN_GREEN_TIME_SEC,
        Min((rate * CYCLE_LENGTH_SEC) \div 3600, CYCLE_LENGTH_SEC - MIN_RED_TIME_SEC))

\* ALINEA: max(MIN_GREEN, min(calculated_tg_sec, CYCLE - MIN_RED))
AlineaGreen(rate) ==
    Max(MIN_GREEN_TIME_SEC, Min(CalculatedGreen(rate), CYCLE_LENGTH_SEC - MIN_RED_TIME_SEC))

\* PI-ALINEA: np.clip(calculated_tg_sec, MIN_GREEN, CYCLE - MIN_RED)
PiAlineaGreen(rate) ==
    Clip(CalculatedGreen(rate), MIN_GREEN_TIME_SEC, CYCLE_LENGTH_SEC - MIN_RED_TIME_SEC)

\* mutant: the red time is left at the value reset() stored
RedOfStale(green) == CYCLE_LENGTH_SEC - MIN_GREEN_TIME_SEC

\* current_red_time_sec = CYCLE_LENGTH_SEC - current_green_time_sec
RedOf(green) == CYCLE_LENGTH_SEC - green

\* mutant: the lag occupancy is never replaced
NextPrevOccKept(prev_occ, occ) == prev_occ

\* PI-ALINEA step 3: O(k-1) becomes O(k-2), whether or not the rate saturated
NextPrevOcc(prev_occ, occ) == occ

\* a rate update happened: the observer notes the ticks since the previous one
NoteUpdate(m, unclipped, occ_before) ==
    [m EXCEPT !.h.updates = @ + 1,
              !.h.update_gap = m.h.ticks_since_update,
              !.h.ticks_since_update = 0,
              !.h.unclipped_rate = unclipped,
              !.h.occ_before = occ_before,
              !.h.green_ticks = 0, !.h.red_ticks = 0, !.h.red_commands = 0]

\* the new cycle starts with Green (end of both _perform_..._and_set_phases)
StartCycleGreen(m) ==
    LET m1 == [m EXCEPT !.c.is_in_green_phase_segment = TRUE]
        m2 == IF m1.c.green_phase_index # -1
              THEN SetPhaseDuration(SetPhase(m1, ramp_meter_id, m1.c.green_phase_index),
                                    ramp_meter_id, m1.c.current_green_time_sec)
              ELSE m1
    IN [m2 EXCEPT !.c.time_in_current_phase_segment_sec = 0]

\* AlineaDsBaseline._perform_alinea_update_and_set_phases
PerformAlineaUpdate(m, reading) ==
    IF ramp_meter_id = "None"
    THEN m
    ELSE LET occ == GetDownstreamOccupancy(reading)
             rate == AlineaRate(m.c.current_metering_rate_vph, occ)
             green == AlineaGreen(rate)
         IN StartCycleGreen(NoteUpdate(
                [m EXCEPT !.c.last_measured_downstream_occ =
                              IF ds_detectors THEN occ ELSE @,
                          !.c.current_metering_rate_vph = rate,
                          !.c.current_green_time_sec = green,
                          !.c.current_red_time_sec = RedOf(green)],
                AlineaUnclipped(m.c.current_metering_rate_vph, occ),
                m.c.prev_measured_downstream_occ))

\* PiAlineaDsBaseline._perform_pialinea_update_and_set_phases
PerformPiAlineaUpdate(m, reading) ==
    IF ramp_meter_id = "None"
    THEN m
    ELSE LET occ == GetDownstreamOccupancy(reading)
             rate == PiAlineaRateWith(m.c.KP, m.c.KI, m.c.current_metering_rate_vph,
                                      m.c.prev_measured_downstream_occ, occ)
             green == PiAlineaGreen(rate)
         IN StartCycleGreen(NoteUpdate(
                [m EXCEPT !.c.last_measured_downstream_occ =
                              IF ds_detectors THEN occ ELSE @,
                          !.c.current_metering_rate_vph = rate,
                          !.c.prev_measured_downstream_occ = NextPrevOcc(@, occ),
                          !.c.current_green_time_sec = green,
                          !.c.current_red_time_sec = RedOf(green)],
                PiAlineaUnclippedWith(m.c.KP, m.c.KI, m.c.current_metering_rate_vph,
                                      m.c.prev_measured_downstream_occ, occ),
                m.c.prev_measured_downstream_occ))

\* mutant: reset() stores the constructor's split, Green 0 and Red a whole cycle
ResetFeedbackStateGreenZero(m) ==
    [m EXCEPT !.c.current_metering_rate_vph =
                  (MIN_METERING_RATE_VPH + MAX_METERING_RATE_VPH) \div 2,
              !.c.time_since_last_decision_sec = CYCLE_LENGTH_SEC,
              !.c.current_green_time_sec = 0,
              !.c.current_red_time_sec = CYCLE_LENGTH_SEC,
              !.c.is_in_green_phase_segment = FALSE,
              !.c.time_in_current_phase_segment_sec = 0,
              !.c.last_measured_downstream_occ = CRITICAL_OCCUPANCY_PERCENT]

\* mutant: reset() leaves the metering rate as the last episode left it
ResetFeedbackStateKeepsRate(m) ==
    [m EXCEPT !.c.time_since_last_decision_sec = CYCLE_LENGTH_SEC,
              !.c.current_green_time_sec = MIN_GREEN_TIME_SEC,
              !.c.current_red_time_sec = CYCLE_LENGTH_SEC - MIN_GREEN_TIME_SEC,
              !.c.is_in_green_phase_segment = FALSE,
              !.c.time_in_current_phase_segment_sec = 0,
              !.c.last_measured_downstream_occ = CRITICAL_OCCUPANCY_PERCENT]

\* the state both reset() methods store before the first decision
ResetFeedbackState(m) ==
    [m EXCEPT !.c.current_metering_rate_vph =
                  (MIN_METERING_RATE_VPH + MAX_METERING_RATE_VPH) \div 2,
              !.c.time_since_last_decision_sec = CYCLE_LENGTH_SEC,
              !.c.current_green_time_sec = MIN_GREEN_TIME_SEC,
              !.c.current_red_time_sec = CYCLE_LENGTH_SEC - MIN_GREEN_TIME_SEC,
              !.c.is_in_green_phase_segment = FALSE,
              !.c.time_in_current_phase_segment_sec = 0,
              !.c.last_measured_downstream_occ = CRITICAL_OCCUPANCY_PERCENT]

\* mutant: reset() goes straight to the first decision
InitialRedOmitted(m) == m

\* reset(): Red for a whole cycle when there is a signal
InitialRed(m) ==
    IF ramp_meter_id # "None" /\ m.c.red_phase_index # -1
    THEN SetPhaseDuration(SetPhase(m, ramp_meter_id, m.c.red_phase_index),
                          ramp_meter_id, CYCLE_LENGTH_SEC)
    ELSE m

\* AlineaDsBaseline.reset
AlineaResetBody(m0, reading) ==
    LET m1 == [SimulationReset(m0) EXCEPT !.h.reset_reading = reading]
    IN PerformAlineaUpdate(InitialRed(ResetFeedbackState(m1)), reading)

\* PiAlineaDsBaseline.reset
PiAlineaResetBody(m0, reading) ==
    LET m1 == ResetFeedbackState([SimulationReset(m0) EXCEPT !.h.reset_reading = reading])
        m2 == [m1 EXCEPT !.c.prev_measured_downstream_occ = CRITICAL_OCCUPANCY_PERCENT]
    IN PerformPiAlineaUpdate(InitialRed(m2), reading)

\* the Red command of the switch
CommandRed(m) ==
    IF m.c.red_phase_index # -1
    THEN [SetPhaseDuration(SetPhase(m, ramp_meter_id, m.c.red_phase_index),
                           ramp_meter_id, m.c.current_red_time_sec)
          EXCEPT !.h.red_commands = @ + 1]
    ELSE m

\* mutant: the switch waits until the Green segment has lasted longer than
\* current_green_time_sec
SwitchToRedLate(m) ==
    IF m.c.is_in_green_phase_segment
       /\ m.c.time_in_current_phase_segment_sec > m.c.current_green_time_sec
    THEN CommandRed([m EXCEPT !.c.is_in_green_phase_segment = FALSE,
                              !.c.time_in_current_phase_segment_sec = 0])
    ELSE m

\* step(): Green -> Red once the Green segment has lasted current_green_time_sec
SwitchToRed(m) ==
    IF m.c.is_in_green_phase_segment
       /\ m.c.time_in_current_phase_segment_sec >= m.c.current_green_time_sec
    THEN CommandRed([m EXCEPT !.c.is_in_green_phase_segment = FALSE,
                              !.c.time_in_current_phase_segment_sec = 0])
    ELSE m

\* the tick of a step(): the observer notes the phase it was made under
TickUnderPhase(m) ==
    LET m1 == SimulationStep(m)
    IN IF m1.raised
       THEN m1
       ELSE [m1 EXCEPT !.h.green_ticks = IF m.s.phase = m.c.green_phase_index
                                         THEN @ + 1 ELSE @,
                       !.h.red_ticks = IF m.s.phase = m.c.red_phase_index
                                       THEN @ + 1 ELSE @]

\* AlineaDsBaseline.step
AlineaStepBody(m0, reading) ==
    IF ramp_meter_id = "None"
    THEN SimulationStep(m0)
    ELSE LET m1 == IF m0.c.time_since_last_decision_sec >= CYCLE_LENGTH_SEC
                   THEN [PerformAlineaUpdate(m0, reading)
                         EXCEPT !.c.time_since_last_decision_sec = 0]
                   ELSE m0
             m2 == TickUnderPhase(SwitchToRed(m1))
         IN IF m2.raised
            THEN m2
            ELSE [m2 EXCEPT
                     !.c.time_since_last_decision_sec = @ + sim_step_length * SecUnits,
                     !.c.time_in_current_phase_segment_sec =
                         IF m2.c.is_in_green_phase_segment
                            \/ @ < m2.c.current_red_time_sec
                         THEN @ + sim_step_length * SecUnits
                         ELSE @]

\* PiAlineaDsBaseline.step
PiAlineaStepBody(m0, reading) ==
    IF ramp_meter_id = "None"
    THEN SimulationStep(m0)
    ELSE LET m1 == IF m0.c.time_since_last_decision_sec >= CYCLE_LENGTH_SEC
                   THEN [PerformPiAlineaUpdate(m0, reading)
                         EXCEPT !.c.time_since_last_decision_sec = 0]
                   ELSE m0
             m2 == TickUnderPhase(SwitchToRed(m1))
         IN IF m2.raised
            THEN m2
            ELSE [m2 EXCEPT
                     !.c.time_since_last_decision_sec = @ + sim_step_length * SecUnits,
                     !.c.time_in_current_phase_segment_sec = @ + sim_step_length * SecUnits]

----------------------------------------------------------------------------
\* The operations.

\* inputs of one operation: ticks after which the simulator reports no expected
\* vehicle, ticks after which simulationStep fails, offset of the on-ramp counts
EndAfter == {3, 17, Never}

FaultAfter == {2, 23, Never}

RLReset ==
    /\ variant = "Learned"
    /\ CanReset
    /\ \E e \in EndAfter, f \in FaultAfter :
          Commit(RLResetBody(BeginReset(e, f, 0)), "reset")

RLStep ==
    /\ variant = "Learned"
    /\ CanStep
    /\ \E a \in ActionInputs, e \in EndAfter, f \in FaultAfter, q \in 0 .. MaxRampCount :
          Commit(RLStepBody(Begin(e, f, q), a), "step")

\* a baseline step() makes one tick: the simulator may end after it, or fail
TickEndAfter == {1, Never}

TickFaultAfter == {0, Never}

AlwaysGreenReset ==
    /\ variant = "AlwaysGreen"
    /\ CanReset
    /\ Commit(AlwaysGreenResetBody(BeginReset(Never, Never, 0)), "reset")

AlwaysGreenStep ==
    /\ variant = "AlwaysGreen"
    /\ CanStep
    /\ \E e \in TickEndAfter, f \in TickFaultAfter :
          Commit(AlwaysGreenStepBody(Begin(e, f, 0)), "step")

FixedCycleReset ==
    /\ variant = "FixedCycle"
    /\ CanReset
    /\ Commit(FixedCycleResetBody(BeginReset(Never, Never, 0)), "reset")

FixedCycleStep ==
    /\ variant = "FixedCycle"
    /\ CanStep
    /\ \E e \in TickEndAfter, f \in TickFaultAfter :
          Commit(FixedCycleStepBody(Begin(e, f, 0)), "step")

AlineaReset ==
    /\ variant = "Alinea"
    /\ CanReset
    /\ \E occ \in OccReadings :
          Commit(AlineaResetBody(BeginReset(Never, Never, 0), occ), "reset")

AlineaStep ==
    /\ variant = "Alinea"
    /\ CanStep
    /\ \E occ \in OccReadings, e \in TickEndAfter, f \in TickFaultAfter :
          Commit(AlineaStepBody(Begin(e, f, 0), occ), "step")

PiAlineaReset ==
    /\ variant = "PiAlinea"
    /\ CanReset
    /\ \E occ \in OccReadings :
          Commit(PiAlineaResetBody(BeginReset(Never, Never, 0), occ), "reset")

PiAlineaStep ==
    /\ variant = "PiAlinea"
    /\ CanStep
    /\ \E occ \in OccReadings, e \in TickEndAfter, f \in TickFaultAfter :
          Commit(PiAlineaStepBody(Begin(e, f, 0), occ), "step")

Next ==
    \/ RLReset
    \/ RLStep
    \/ AlwaysGreenReset
    \/ AlwaysGreenStep
    \/ FixedCycleReset
    \/ FixedCycleStep
    \/ AlineaReset
    \/ AlineaStep
    \/ PiAlineaReset
    \/ PiAlineaStep

Spec == Init /\ [][Next]_vars

----------------------------------------------------------------------------
\* The learned path over busy, failing and overloaded sensors: the simulator
\* neither finishes early nor fails, the sensors are what varies.

\* a group with every subset of its loops failing
FailingSubsets(readings) ==
    {[i \in DOMAIN readings |-> IF i \in F THEN Failed ELSE readings[i]] :
        F \in SUBSET DOMAIN readings}

UpstreamLoops == <<Flowing, Dense, Over>>

BottleneckLoops == <<Dense, Flowing, Over, Quiet>>

\* loops fail in the upstream group or in the merge area
MainlineInputs ==
    {<<up, BottleneckLoops>> : up \in FailingSubsets(UpstreamLoops)}
    \cup {<<UpstreamLoops, bn>> : bn \in FailingSubsets(BottleneckLoops)}

\* the downstream edge may carry no loop at all
DownstreamInputs == {<<>>} \cup FailingSubsets(<<Over, Dense>>)

\* on-ramp counts averaging 0, 22, 22.5, 23.5, 25 and 26 vehicles over a
\* cycle, and an edge whose count cannot be read
RampInputs ==
    {[fails |-> FALSE, base |-> 0, amp |-> 0],
     [fails |-> FALSE, base |-> 22, amp |-> 0],
     [fails |-> FALSE, base |-> 22, amp |-> 1],
     [fails |-> FALSE, base |-> 23, amp |-> 1],
     [fails |-> FALSE, base |-> 25, amp |-> 0],
     [fails |-> FALSE, base |-> 26, amp |-> 0],
     [fails |-> TRUE, base |-> 25, amp |-> 0]}

DetectorInputs ==
    {[QuietDetectors(ds) EXCEPT !.up = main[1], !.bn = main[2], !.ramp = ramp] :
        main \in MainlineInputs, ds \in DownstreamInputs, ramp \in RampInputs}

\* green times of 10 s and of 40 s
SnapshotActions == {1, 7}

SnapshotInit ==
    /\ variant = "Learned"
    /\ ramp_meter_id = "ramp_meter"
    /\ detectors \in DetectorInputs
    /\ ds_detectors = (detectors.ds # <<>>)
    /\ ctl = NewController(variant, ramp_meter_id)
    /\ sim = [time |-> 0, ended |-> FALSE, phase |-> -1]
    /\ hist = NewHist
    /\ trace = <<>>
    /\ lastOp = "init"
    /\ outcome = "ok"
    /\ done = FALSE

SnapshotReset ==
    /\ CanReset
    /\ Commit(RLResetBody(BeginReset(Never, Never, 0)), "reset")

SnapshotStep ==
    /\ CanStep
    /\ \E a \in SnapshotActions :
          Commit(RLStepBody(Begin(Never, Never, 0), a), "step")

SnapshotNext ==
    \/ SnapshotReset
    \/ SnapshotStep

SnapshotSpec == SnapshotInit /\ [][SnapshotNext]_vars

----------------------------------------------------------------------------
\* The caller's loop on a network without a traffic light and a simulator
\* whose every tick succeeds: reset(), then step() for as long as done() is
\* false (Observe.loop).  No simulationStep fails; the simulator may still
\* run out of vehicles.

LiveInit == Init /\ ramp_meter_id = "None"

LiveRLReset ==
    /\ variant = "Learned"
    /\ CanReset
    /\ \E e \in EndAfter : Commit(RLResetBody(BeginReset(e, Never, 0)), "reset")

LiveRLStep ==
    /\ variant = "Learned"
    /\ CanStep
    /\ \E a \in ActionInputs, e \in EndAfter, q \in 0 .. MaxRampCount :
          Commit(RLStepBody(Begin(e, Never, q), a), "step")

LiveAlwaysGreenStep ==
    /\ variant = "AlwaysGreen"
    /\ CanStep
    /\ \E e \in TickEndAfter : Commit(AlwaysGreenStepBody(Begin(e, Never, 0)), "step")

LiveFixedCycleStep ==
    /\ variant = "FixedCycle"
    /\ CanStep
    /\ \E e \in TickEndAfter : Commit(FixedCycleStepBody(Begin(e, Never, 0)), "step")

LiveAlineaStep ==
    /\ variant = "Alinea"
    /\ CanStep
    /\ \E occ \in OccReadings, e \in TickEndAfter :
          Commit(AlineaStepBody(Begin(e, Never, 0), occ), "step")

LivePiAlineaStep ==
    /\ variant = "PiAlinea"
    /\ CanStep
    /\ \E occ \in OccReadings, e \in TickEndAfter :
          Commit(PiAlineaStepBody(Begin(e, Never, 0), occ), "step")

LiveStep ==
    \/ LiveRLStep
    \/ LiveAlwaysGreenStep
    \/ LiveFixedCycleStep
    \/ LiveAlineaStep
    \/ LivePiAlineaStep

LiveNext ==
    \/ LiveRLReset
    \/ AlwaysGreenReset
    \/ FixedCycleReset
    \/ AlineaReset
    \/ PiAlineaReset
    \/ LiveStep

\* the caller keeps calling step() while done() is false
LiveSpec == LiveInit /\ [][LiveNext]_vars /\ WF_vars(LiveStep)

----------------------------------------------------------------------------
\* The feedback controllers on a network with a signal and downstream loops,
\* with readings that drive the green time to within a tick of the cycle.

\* last-interval occupancies: 0, 4.5, 16.5, 17 and 20 percent
CycleReadings == {0, 9, 33, 34, 40}

CycleInit == Init /\ variant \in {"Alinea", "PiAlinea"} /\ ramp_meter_id # "None"
                  /\ ds_detectors

CycleAlineaReset ==
    /\ variant = "Alinea"
    /\ CanReset
    /\ \E occ \in CycleReadings :
          Commit(AlineaResetBody(BeginReset(Never, Never, 0), occ), "reset")

CycleAlineaStep ==
    /\ variant = "Alinea"
    /\ CanStep
    /\ \E occ \in CycleReadings, e \in TickEndAfter, f \in TickFaultAfter :
          Commit(AlineaStepBody(Begin(e, f, 0), occ), "step")

CyclePiAlineaReset ==
    /\ variant = "PiAlinea"
    /\ CanReset
    /\ \E occ \in CycleReadings :
          Commit(PiAlineaResetBody(BeginReset(Never, Never, 0), occ), "reset")

CyclePiAlineaStep ==
    /\ variant = "PiAlinea"
    /\ CanStep
    /\ \E occ \in CycleReadings, e \in TickEndAfter, f \in TickFaultAfter :
          Commit(PiAlineaStepBody(Begin(e, f, 0), occ), "step")

CycleNext ==
    \/ CycleAlineaReset
    \/ CycleAlineaStep
    \/ CyclePiAlineaReset
    \/ CyclePiAlineaStep

CycleSpec == CycleInit /\ [][CycleNext]_vars

----------------------------------------------------------------------------
\* ALINEA and PI-ALINEA side by side on the same network and the same
\* readings, PI-ALINEA constructed with the gains PairGains.  ctl, sim, hist,
\* trace, outcome and done hold one value for each controller: .a of
\* AlineaDsBaseline, .p of PiAlineaDsBaseline.

\* mutant: PI-ALINEA keeps its default gains
PairGainsDefault == [kp |-> KP, ki |-> KI]

\* args "pialinea_kp" = 0 and "pialinea_ki" = KR
PairGains == [kp |-> 0, ki |-> KR]

PairInit ==
    /\ variant = "Pair"
    /\ ramp_meter_id \in {"ramp_meter", "None"}
    /\ ds_detectors \in BOOLEAN
    /\ detectors = QuietDetectors(IF ds_detectors THEN <<Quiet>> ELSE <<>>)
    /\ ctl = [a |-> NewController("Alinea", ramp_meter_id),
              p |-> [NewController("PiAlinea", ramp_meter_id)
                     EXCEPT !.KP = PairGains.kp, !.KI = PairGains.ki]]
    /\ sim = [a |-> [time |-> 0, ended |-> FALSE, phase |-> -1],
              p |-> [time |-> 0, ended |-> FALSE, phase |-> -1]]
    /\ hist = [a |-> NewHist, p |-> NewHist]
    /\ trace = [a |-> <<>>, p |-> <<>>]
    /\ lastOp = "init"
    /\ outcome = [a |-> "ok", p |-> "ok"]
    /\ done = [a |-> FALSE, p |-> FALSE]

\* an operation starts on one of the two controllers
PairBegin(c, s, h, endAfter, faultAfter) ==
    [c |-> c, s |-> s,
     h |-> [h EXCEPT !.tick_failed = FALSE, !.phase_at_start = s.phase,
                     !.ticks_after_end = 0, !.reset_reading = -1, !.prior = NoPrior],
     tr |-> <<>>, raised |-> FALSE,
     endAt |-> IF endAfter = Never THEN Never ELSE s.time + endAfter,
     faultAt |-> IF faultAfter = Never THEN Never ELSE s.time + faultAfter,
     q |-> 0]

\* the same operation ends on both
PairCommit(ma, mp, op) ==
    /\ ctl' = [a |-> ma.c, p |-> mp.c]
    /\ sim' = [a |-> [ma.s EXCEPT !.ended = IsSimulationEnd(ma)],
               p |-> [mp.s EXCEPT !.ended = IsSimulationEnd(mp)]]
    /\ hist' = [a |-> ma.h, p |-> mp.h]
    /\ trace' = [a |-> ma.tr, p |-> mp.tr]
    /\ lastOp' = op
    /\ outcome' = [a |-> IF ma.raised THEN "raised" ELSE "ok",
                   p |-> IF mp.raised THEN "raised" ELSE "ok"]
    /\ done' = [a |-> ~ma.raised /\ Done(ma), p |-> ~mp.raised /\ Done(mp)]
    /\ UNCHANGED <<variant, ramp_meter_id, ds_detectors, detectors>>

PairReset ==
    /\ ctl.a.ep_count < MaxEpisodes
    /\ \E occ \in OccReadings :
          PairCommit(AlineaResetBody(
                         [PairBegin(ctl.a, sim.a, hist.a, Never, Never)
                          EXCEPT !.endAt = Never, !.faultAt = Never], occ),
                     PiAlineaResetBody(
                         [PairBegin(ctl.p, sim.p, hist.p, Never, Never)
                          EXCEPT !.endAt = Never, !.faultAt = Never], occ),
                     "reset")

PairStep ==
    /\ lastOp # "init"
    /\ outcome.a = "ok" /\ ~done.a
    /\ outcome.p = "ok" /\ ~done.p
    /\ \E occ \in OccReadings, e \in TickEndAfter, f \in TickFaultAfter :
          PairCommit(AlineaStepBody(PairBegin(ctl.a, sim.a, hist.a, e, f), occ),
                     PiAlineaStepBody(PairBegin(ctl.p, sim.p, hist.p, e, f), occ),
                     "step")

PairNext ==
    \/ PairReset
    \/ PairStep

PairSpec == PairInit /\ [][PairNext]_vars

----------------------------------------------------------------------------
\* CustomEnvWrapper around one environment.  ctl holds the wrapper's fields
\* and, in custom_env, what the wrapped environment keeps for info(); hist
\* holds what the caller saw: the number of step() calls and the rewards
\* returned since the last reset(), and the values last returned.

\* rewards rew() of the learned controller can return, in reward units
WrapRewards == {0 - 3, 0, 2, 5}

\* step() calls followed within one episode
MaxCalls == 4

\* dict.update: the keys of other replace and extend those of info
Update(info, other) ==
    [k \in DOMAIN info \cup DOMAIN other |->
        IF k \in DOMAIN other THEN other[k] ELSE info[k]]

EmptyInfo == [k \in {} |-> 0]

\* RLController._last_detailed_info after reset(): the placeholders, then log_info()
Placeholders(ep) ==
    Update([k \in {"chosen_green_time_sec", "episode", "l", "r"} |-> 0],
           [k \in {"episode"} |-> ep])

\* info_for_this_step of RLController.step, BaselineMeta._collect_common_metrics
DetailedInfo(ep, green) ==
    Update([k \in {"chosen_green_time_sec"} |-> green], [k \in {"episode"} |-> ep])

CustomEnvReset(e) ==
    [e EXCEPT !.ep_count = @ + 1,
              !.info = IF e.player = "Learned"
                       THEN Placeholders(e.ep_count + 1)
                       ELSE DetailedInfo(e.ep_count + 1, 0)]

CustomEnvStep(e, action) ==
    [e EXCEPT !.info = DetailedInfo(e.ep_count,
                           IF e.player = "Learned"
                           THEN green_time_actions_sec[action + 1] ELSE 0)]

\* mutant: the reward is returned without being added
WrapRewNotAdded(w, rew) == w

\* CustomEnvWrapper._rew
WrapRew(w, rew) == [w EXCEPT !.total_reward = @ + rew]

\* CustomEnvWrapper._info
WrapInfo(w) ==
    LET info == [k \in {"l", "r"} |-> IF k = "l" THEN w.steps ELSE w.total_reward]
    IN  IF ~w.mode_train /\ DOMAIN w.custom_env.info # {}
        THEN Update(info, w.custom_env.info)
        ELSE info

\* CustomEnvWrapper.reset
WrapResetBody(w) ==
    [w EXCEPT !.steps = 0, !.total_reward = 0, !.custom_env = CustomEnvReset(@)]

\* CustomEnvWrapper.step up to the return statement
WrapStepBody(w, action) ==
    [w EXCEPT !.custom_env = CustomEnvStep(@, action), !.steps = @ + 1]

WrapInit ==
    /\ variant = "Wrapper"
    /\ ramp_meter_id = "ramp_meter"
    /\ ds_detectors = TRUE
    /\ detectors = QuietDetectors(<<Quiet>>)
    /\ \E player \in {"Learned", "Baseline"}, train \in BOOLEAN :
          ctl = [steps |-> 0, total_reward |-> 0, mode_train |-> train,
                 custom_env |-> [player |-> player, ep_count |-> 0,
                                 info |-> IF player = "Learned"
                                          THEN Placeholders(0) ELSE EmptyInfo]]
    /\ sim = [time |-> 0, ended |-> FALSE, phase |-> -1]
    /\ hist = [calls |-> 0, returned |-> 0, rew |-> 0, info |-> EmptyInfo]
    /\ trace = <<>>
    /\ lastOp = "init"
    /\ outcome = "ok"
    /\ done = FALSE

WrapReset ==
    /\ ctl.custom_env.ep_count < MaxEpisodes
    /\ LET w == WrapResetBody(ctl)
       IN  /\ ctl' = w
           /\ hist' = [calls |-> 0, returned |-> 0, rew |-> 0, info |-> WrapInfo(w)]
    /\ lastOp' = "reset"
    /\ done' = FALSE
    /\ UNCHANGED <<variant, ramp_meter_id, ds_detectors, detectors, sim, trace, outcome>>

\* the return statement evaluates _obs(), _rew(), then _info()
WrapStep ==
    /\ lastOp # "init"
    /\ hist.calls < MaxCalls
    /\ \E action \in 0 .. action_space_n - 1, terminated \in BOOLEAN,
          rew \in IF ctl.custom_env.player = "Learned" THEN WrapRewards ELSE {0} :
          LET w == WrapRew(WrapStepBody(ctl, action), rew)
          IN  /\ ctl' = w
              /\ hist' = [calls |-> hist.calls + 1, returned |-> hist.returned + rew,
                          rew |-> rew, info |-> WrapInfo(w)]
              /\ done' = terminated
    /\ lastOp' = "step"
    /\ UNCHANGED <<variant, ramp_meter_id, ds_detectors, detectors, sim, trace, outcome>>

WrapNext ==
    \/ WrapReset
    \/ WrapStep

WrapSpec == WrapInit /\ [][WrapNext]_vars

----------------------------------------------------------------------------
\* Observe: setup(), then loop() again and again until it exits.  ctl holds
\* the fields of Observe; sim is the environment behind self.env: the number
\* of reset() calls, the step() calls since the last one, and whether close()
\* was called; hist.finished counts the step() calls that returned done.

\* HYPER_PARAMS['repeat']
HYPER_PARAMS_repeat == 0

\* largest -max_e followed (0: no limit)
MaxArgEpisodes == 3

\* loop() calls followed within one episode
MaxLoops == 3

\* x or 1
Or1(x) == IF x = 0 THEN 1 ELSE x

\* mutant: the run exits only once the limit is exceeded
ShouldExitLate(c) == c.max_episodes # 0 /\ c.ep > c.max_episodes

\* bool(self.max_episodes) and self.ep >= self.max_episodes
ShouldExit(c) == c.max_episodes # 0 /\ c.ep >= c.max_episodes

\* self.env.reset()
EnvReset(e) == [e EXCEPT !.resets = @ + 1, !.steps = 0]

\* Observe.loop, the network choosing chosen and the environment reporting finished
LoopBody(c, e, chosen, finished) ==
    LET c1 == IF c.repeat % Or1(HYPER_PARAMS_repeat) = 0
              THEN [c EXCEPT !.action = chosen] ELSE c
        c2 == [c1 EXCEPT !.repeat = @ + 1]
        e2 == [e EXCEPT !.steps = @ + 1]
        c3 == [c2 EXCEPT !.repeat = 0, !.ep = @ + 1]
    IN  IF ~finished THEN [c |-> c2, e |-> e2, exit |-> FALSE]
        ELSE IF ShouldExit(c3)
             THEN [c |-> c3, e |-> [e2 EXCEPT !.closed = TRUE], exit |-> TRUE]
             ELSE [c |-> c3, e |-> EnvReset(e2), exit |-> FALSE]

ObserveInit ==
    /\ variant = "Observe"
    /\ ramp_meter_id = "ramp_meter"
    /\ ds_detectors = TRUE
    /\ detectors = QuietDetectors(<<Quiet>>)
    /\ \E n \in 0 .. MaxArgEpisodes :
          ctl = [repeat |-> 0, action |-> 0, ep |-> 0, max_episodes |-> n]
    /\ sim = [resets |-> 0, steps |-> 0, closed |-> FALSE]
    /\ hist = [finished |-> 0]
    /\ trace = <<>>
    /\ lastOp = "init"
    /\ outcome = "ok"
    /\ done = FALSE

\* Observe.setup at the start of the run
ObserveSetup ==
    /\ lastOp = "init"
    /\ sim' = EnvReset(sim)
    /\ lastOp' = "setup"
    /\ UNCHANGED <<variant, ramp_meter_id, ds_detectors, detectors, ctl, hist, trace,
                   outcome, done>>

ObserveLoop ==
    /\ lastOp # "init"
    /\ outcome # "exit"
    /\ \E chosen \in 0 .. action_space_n - 1, finished \in BOOLEAN :
          /\ ~finished => sim.steps + 1 < MaxLoops
          /\ finished => (ctl.max_episodes # 0 \/ ctl.ep < MaxArgEpisodes)
          /\ LET r == LoopBody(ctl, sim, chosen, finished)
             IN  /\ ctl' = r.c
                 /\ sim' = r.e
                 /\ outcome' = IF r.exit THEN "exit" ELSE "ok"
          /\ hist' = [finished |-> hist.finished + IF finished THEN 1 ELSE 0]
          /\ done' = finished
    /\ lastOp' = "loop"
    /\ UNCHANGED <<variant, ramp_meter_id, ds_detectors, detectors, trace>>

ObserveNext ==
    \/ ObserveSetup
    \/ ObserveLoop

ObserveSpec == ObserveInit /\ [][ObserveNext]_vars

----------------------------------------------------------------------------
\* Properties.

FeedbackVariant == variant \in {"Alinea", "PiAlinea"}

HasSignal == ramp_meter_id # "None"

\* occupancies of 0..100 percent, in steps of 1/OccUnits percent
AllOccupancies == 0 .. 100 * OccUnits

\* number of events of one kind in the last operation
Count(name) == Cardinality({i \in DOMAIN trace : trace[i][1] = name})

\* the rate the next update would store if the loops reported occ
NextRate(occ) ==
    IF variant = "Alinea"
    THEN AlineaRate(ctl.current_metering_rate_vph, GetDownstreamOccupancy(occ))
    ELSE PiAlineaRate(ctl.current_metering_rate_vph, ctl.prev_measured_downstream_occ,
                      GetDownstreamOccupancy(occ))

NextGreen(occ) ==
    IF variant = "Alinea" THEN AlineaGreen(NextRate(occ)) ELSE PiAlineaGreen(NextRate(occ))

\* C1: the green and the red duration of every cycle sum to the cycle length:
\* for every action index handed to RLController.step, and for the split
\* every ALINEA / PI-ALINEA update stores.
C1_GreenPlusRedIsCycle ==
    /\ (variant = "Learned" /\ lastOp = "step")
           => hist.chosen_green_time_sec + hist.red_time_sec = CYCLE_DURATION_SEC
    /\ (FeedbackVariant /\ hist.updates > 0)
           => ctl.current_green_time_sec + ctl.current_red_time_sec = CYCLE_LENGTH_SEC

C1_Witness ==
    /\ variant = "Alinea"
    /\ hist.updates >= 2
    /\ ctl.current_green_time_sec > MIN_GREEN_TIME_SEC
    /\ ctl.current_green_time_sec < CYCLE_LENGTH_SEC

\* C2: after every ALINEA / PI-ALINEA update the rate lies in
\* [MIN_RATE, MAX_RATE] and the green time in [MIN_GREEN, cycle length]; and
\* the same holds of the update that would follow, for every occupancy of
\* 0..100 percent.
C2_UpdateWithinBounds ==
    (FeedbackVariant /\ hist.updates > 0) =>
        /\ ctl.current_metering_rate_vph >= MIN_METERING_RATE_VPH
        /\ ctl.current_metering_rate_vph <= MAX_METERING_RATE_VPH
        /\ ctl.current_green_time_sec >= MIN_GREEN_TIME_SEC
        /\ ctl.current_green_time_sec <= CYCLE_LENGTH_SEC
        /\ \A occ \in AllOccupancies :
              /\ NextRate(occ) \in MIN_METERING_RATE_VPH .. MAX_METERING_RATE_VPH
              /\ NextGreen(occ) \in MIN_GREEN_TIME_SEC .. CYCLE_LENGTH_SEC

C2_Witness ==
    /\ variant = "PiAlinea"
    /\ hist.updates >= 2
    /\ hist.unclipped_rate < MIN_METERING_RATE_VPH
    /\ ctl.current_metering_rate_vph = MIN_METERING_RATE_VPH

\* the stored rate and green time are within the configured bounds
StoredWithinBounds ==
    /\ ctl.current_metering_rate_vph >= MIN_METERING_RATE_VPH
    /\ ctl.current_metering_rate_vph <= MAX_METERING_RATE_VPH
    /\ ctl.current_green_time_sec >= MIN_GREEN_TIME_SEC
    /\ ctl.current_green_time_sec <= CYCLE_LENGTH_SEC - MIN_RED_TIME_SEC

\* C3 as claimed: in every reachable state of an ALINEA / PI-ALINEA instance,
\* from construction on, the stored rate and green time are within bounds.
C3_BoundsFromConstruction == FeedbackVariant => StoredWithinBounds

\* C3 amended: from the return of the first reset() on, with or without a
\* signal, the stored rate and green time are within bounds.
C3_BoundsFromReset == (FeedbackVariant /\ lastOp # "init") => StoredWithinBounds

C3_Witness ==
    /\ variant = "PiAlinea"
    /\ lastOp = "step"
    /\ hist.updates >= 3
    /\ ctl.current_metering_rate_vph = MAX_METERING_RATE_VPH
    /\ ctl.current_green_time_sec = CYCLE_LENGTH_SEC - MIN_RED_TIME_SEC

\* C4: between two consecutive rate updates of an episode, the one made
\* inside reset() included, at least a cycle length of ticks has elapsed.
C4_UpdatesOneCycleApart ==
    (FeedbackVariant /\ hist.updates >= 2)
        => hist.update_gap * sim_step_length * SecUnits >= CYCLE_LENGTH_SEC

\* what a whole cycle with green g does on the learned path
ExpectedCycle(g) ==
    LET ticks(n) == [i \in 1 .. 2 * n |->
                        IF i % 2 = 1 THEN <<"simulationStep", 0>> ELSE <<"queueSample", 0>>]
        red == CYCLE_DURATION_SEC - g
    IN <<(<<"resetCycleAggregators", 0>>)>>
       \o << <<"setPhase", green_phase_index>>, <<"setPhaseDuration", g * SecUnits>> >>
       \o ticks(g)
       \o (IF red > 0
           THEN << <<"setPhase", red_phase_index>>, <<"setPhaseDuration", red * SecUnits>> >>
                \o ticks(red)
           ELSE << >>)
       \o <<(<<"collectDataAtCycleEnd", 0>>)>>

\* the last operation's events, the sampled counts left out
Erased == [i \in DOMAIN trace |->
              IF trace[i][1] = "queueSample" THEN <<"queueSample", 0>> ELSE trace[i]]

\* C5: on the learned path, with a signal and the simulator not finished, a
\* step() with green g resets the queue accumulator, commands Green, makes g
\* ticks each followed by one queue sample, commands Red iff 40 - g > 0,
\* makes 40 - g ticks each followed by one sample, and aggregates once.
C5_CycleProtocol ==
    (variant = "Learned" /\ HasSignal /\ lastOp = "step" /\ outcome = "ok" /\ ~sim.ended)
        => Erased = ExpectedCycle(hist.chosen_green_time_sec)

C5_Witness ==
    /\ variant = "Learned" /\ HasSignal /\ lastOp = "step" /\ outcome = "ok" /\ ~sim.ended
    /\ hist.chosen_green_time_sec = 10
    /\ Count("simulationStep") = 40
    /\ trace[24] = <<"setPhase", red_phase_index>>

\* C6: a tick that fails during step() ends the ticking, and step() returns
\* normally with done = true.
C6_TickFailureReturnsDone ==
    (lastOp = "step" /\ hist.tick_failed) => (outcome = "ok" /\ done)

\* C7: without a signal every step() of every variant advances the
\* simulator, and a step() of the learned path advances a whole cycle unless
\* the simulator finishes.
C7_NoSignalTicksProceed ==
    (~HasSignal /\ lastOp = "step" /\ outcome = "ok") =>
        /\ Count("simulationStep") >= 1
        /\ (variant = "Learned" /\ ~sim.ended)
               => Count("simulationStep") * sim_step_length = CYCLE_DURATION_SEC

\* C8: without a signal no operation issues a set-phase or a
\* set-phase-duration command, and none fails for want of the signal (an
\* operation raises only when a tick failed).
C8_NoSignalNoCommands ==
    ~HasSignal =>
        /\ Count("setPhase") = 0
        /\ Count("setPhaseDuration") = 0
        /\ sim.phase = -1
        /\ (outcome = "raised" => hist.tick_failed)

C8_Witness ==
    /\ ~HasSignal
    /\ variant = "Learned"
    /\ lastOp = "step"
    /\ outcome = "ok"
    /\ ctl.ep_count = 2

\* the phase active when event i of the last operation was issued
PhaseBefore(i) ==
    LET prior == {j \in 1 .. (i - 1) : trace[j][1] = "setPhase"}
    IN IF prior = {}
       THEN hist.phase_at_start
       ELSE trace[CHOOSE j \in prior : \A k \in prior : k <= j][2]

\* C9: no set-phase command re-issues the phase that is already active.
C9_ReissueIsNoOp ==
    \A i \in DOMAIN trace :
        trace[i][1] = "setPhase" => trace[i][2] # PhaseBefore(i)

\* C10: a PI-ALINEA update whose unclipped rate leaves [rate_min, rate_max]
\* leaves the stored Occ(k-2) as it was.
C10_AntiWindup ==
    (variant = "PiAlinea" /\ hist.updates > 0
       /\ (hist.unclipped_rate < MIN_METERING_RATE_VPH
           \/ hist.unclipped_rate > MAX_METERING_RATE_VPH))
        => ctl.prev_measured_downstream_occ = hist.occ_before

C12_StopsAtSimulationEnd ==
    (variant = "Learned" /\ lastOp = "step" /\ outcome = "ok" /\ sim.ended) =>
        /\ hist.ticks_after_end = 0
        /\ Count("collectDataAtCycleEnd") = 1
        /\ trace[Len(trace)][1] = "collectDataAtCycleEnd"
        /\ done

C12_Witness ==
    /\ variant = "Learned" /\ HasSignal /\ lastOp = "step" /\ outcome = "ok"
    /\ sim.ended
    /\ hist.chosen_green_time_sec = 10
    /\ Count("simulationStep") = 17
    /\ Count("collectDataAtCycleEnd") = 1
    /\ done

\* C13: RLController.step(i) uses the green time at index min(max(i, 0), n - 1)
\* of the menu for every index i, in or out of range, and does not raise
\* because of the index (it raises only when a tick failed).
C13_ActionClamped ==
    (variant = "Learned" /\ lastOp = "step") =>
        /\ hist.chosen_green_time_sec =
               green_time_actions_sec[Min(Max(hist.action_index, 0), action_space_n - 1) + 1]
        /\ (outcome = "raised" => hist.tick_failed)

C13_Witness ==
    /\ variant = "Learned" /\ lastOp = "step" /\ outcome = "ok"
    /\ hist.action_index = action_space_n
    /\ hist.chosen_green_time_sec = 40

\* C14: an ALINEA update whose occupancy equals the critical occupancy leaves
\* the rate unchanged, for every prior rate within the bounds and for the
\* stored one; and when the downstream group is empty the critical occupancy
\* is what the update uses, so the rate stays at its reset midpoint.
C14_ZeroErrorFixedPoint ==
    (variant = "Alinea" /\ lastOp # "init") =>
        /\ AlineaRate(ctl.current_metering_rate_vph, CRITICAL_OCCUPANCY_PERCENT)
               = ctl.current_metering_rate_vph
        /\ lastOp = "reset" =>
               \A r \in MIN_METERING_RATE_VPH .. MAX_METERING_RATE_VPH :
                   AlineaRate(r, CRITICAL_OCCUPANCY_PERCENT) = r
        /\ ~ds_detectors =>
               /\ \A occ \in OccReadings :
                      GetDownstreamOccupancy(occ) = CRITICAL_OCCUPANCY_PERCENT
               /\ ctl.current_metering_rate_vph =
                      (MIN_METERING_RATE_VPH + MAX_METERING_RATE_VPH) \div 2
               /\ hist.updates > 0 =>
                      hist.unclipped_rate = ctl.current_metering_rate_vph

C14_Witness ==
    /\ variant = "Alinea" /\ HasSignal /\ ~ds_detectors
    /\ lastOp = "step"
    /\ hist.updates >= 3
    /\ hist.unclipped_rate = 990
    /\ ctl.current_metering_rate_vph = 990

\* a fraction with the value of a whole number
Whole(n) == Ratio(n, 1)

\* C15: the spillback penalty is 0 for every ramp queue up to 90% of the
\* maximum, -(queue - 90%) / 10% between 90% and 100%, and -1 from the
\* maximum on; with the maximum 25, queue 25 gives -1, 22.5 gives 0, 0 gives 0.
C15_SpillbackPenalty ==
    LET queue == ctl.processed_ramp_queue_veh
        penalty == PenaltySpillback(ctl)
        Of(x) == PenaltySpillback([processed_ramp_queue_veh |-> x])
    IN /\ penalty.den > 0
       /\ 10 * queue.num <= 9 * MAX_RAMP_QUEUE_VEH * queue.den => penalty.num = 0
       /\ queue.num >= MAX_RAMP_QUEUE_VEH * queue.den => penalty.num = 0 - penalty.den
       /\ (10 * queue.num > 9 * MAX_RAMP_QUEUE_VEH * queue.den
            /\ queue.num < MAX_RAMP_QUEUE_VEH * queue.den) =>
              penalty.num * MAX_RAMP_QUEUE_VEH * queue.den
                  = (9 * MAX_RAMP_QUEUE_VEH * queue.den - 10 * queue.num) * penalty.den
       /\ MAX_RAMP_QUEUE_VEH = 25 =>
              /\ Of(Whole(25)).num = 0 - Of(Whole(25)).den
              /\ Of(Ratio(45, 2)).num = 0
              /\ Of(Whole(0)).num = 0

C15_Witness ==
    /\ lastOp = "step"
    /\ ctl.processed_ramp_queue_veh = Ratio(940, 40)
    /\ 10 * PenaltySpillback(ctl).num = (0 - 4) * PenaltySpillback(ctl).den

\* snapshots with a calm ramp (a queue of 0 or of 90% of the maximum) or
\* with a spilling one (the maximum or more), speeds and occupancies at
\* either end of their range
SampleSnapshots(queues) ==
    {[processed_speed_bottleneck_mps |-> Whole(sm),
      processed_speed_upstream_mps |-> Whole(su),
      processed_mainline_speed_downstream_mps |-> Whole(sd),
      processed_occ_bottleneck_percent |-> Whole(ob),
      processed_occ_upstream_percent |-> Whole(ou),
      processed_ramp_queue_veh |-> q] :
        sm \in {0, FREEFLOW_SPEED_MPS}, su \in {0, FREEFLOW_SPEED_MPS},
        sd \in {0, FREEFLOW_SPEED_MPS}, ob \in {0, MAX_OCCUPANCY_PERCENT},
        ou \in {0, MAX_OCCUPANCY_PERCENT}, q \in queues}

CalmSnapshots == SampleSnapshots({Whole(0), Ratio(9 * MAX_RAMP_QUEUE_VEH, 10)})

SpillingSnapshots ==
    SampleSnapshots({Whole(MAX_RAMP_QUEUE_VEH), Whole(MAX_RAMP_QUEUE_VEH + 5)})

\* C16: the reward of a snapshot whose ramp queue has reached the maximum is
\* strictly lower than the reward of a snapshot whose queue is at most 90%
\* of the maximum, whatever the speeds and occupancies of the two.
C16_SpillbackDominates ==
    LET queue == ctl.processed_ramp_queue_veh
    IN /\ queue.num >= MAX_RAMP_QUEUE_VEH * queue.den =>
              \A calm \in CalmSnapshots : CalculateReward(ctl) < CalculateReward(calm)
       /\ 10 * queue.num <= 9 * MAX_RAMP_QUEUE_VEH * queue.den =>
              \A spilling \in SpillingSnapshots :
                  CalculateReward(spilling) < CalculateReward(ctl)

C16_Witness ==
    /\ lastOp = "step"
    /\ ctl.processed_ramp_queue_veh = Ratio(1000, 40)
    /\ RewardMergingSpeed(ctl).num > 0
    /\ PenaltyBottleneckOcc(ctl).num < 0
    /\ CalculateReward(ctl) < 0 - 18 * WeightUnits * NormUnits

\* the methods whose values _calculate_reward sums, each with its weight
RewardWeights ==
    [m \in {"_reward_merging_speed", "_reward_upstream_speed", "_reward_outflow_speed",
            "_penalty_bottleneck_occ", "_penalty_upstream_occ", "_penalty_ramp_queue",
            "_penalty_spillback"} |->
        CASE m = "_reward_merging_speed" -> w_speed_merge
          [] m = "_reward_upstream_speed" -> w_speed_up
          [] m = "_reward_outflow_speed" -> w_speed_down
          [] m = "_penalty_bottleneck_occ" -> w_occ_bottle
          [] m = "_penalty_upstream_occ" -> w_occ_upstream
          [] m = "_penalty_ramp_queue" -> w_queue
          [] m = "_penalty_spillback" -> w_spillback]

\* the weighted sum of the sub-term entries of an info dict
RECURSIVE WeightedSumOfEntries(_, _)
WeightedSumOfEntries(keys, info) ==
    IF keys = {}
    THEN 0
    ELSE LET k == CHOOSE x \in keys : TRUE
             term == IF InfoSubTerms[k] \in DOMAIN RewardWeights
                     THEN RewardWeights[InfoSubTerms[k]] * InNormUnits(info[k])
                     ELSE 0
         IN term + WeightedSumOfEntries(keys \ {k}, info)

\* C17: every sub-term that enters the reward is an entry of the info dict
\* the same step() returns, and the reward is the weighted sum of those
\* entries.
C17_SubTermsExposed ==
    (variant = "Learned" /\ lastOp = "step" /\ outcome = "ok") =>
        /\ \A m \in DOMAIN RewardWeights :
               \E k \in DOMAIN InfoSubTerms : InfoSubTerms[k] = m
        /\ CalculateReward(ctl) =
               WeightedSumOfEntries(DOMAIN InfoSubTerms,
                                    InfoForThisStep(ctl, hist.chosen_green_time_sec))

\* C18: after reset() and after every step(), whatever the sensors report,
\* the observation has 14 components and each lies in [0, 1].
C18_ObservationInUnitRange ==
    (variant = "Learned" /\ outcome = "ok") =>
        LET state == GetCurrentObservation(ctl)
        IN /\ Len(state) = 14 /\ observation_space_n = 14
           /\ \A i \in DOMAIN state :
                  /\ state[i].den > 0
                  /\ 0 <= state[i].num
                  /\ state[i].num <= state[i].den

C18_Witness ==
    LET c == ctl
        state == GetCurrentObservation(ctl)
    IN /\ lastOp = "step" /\ outcome = "ok"
       /\ c.processed_flow_upstream_vph.num
              > MAX_FLOW_UPSTREAM_VPH * c.processed_flow_upstream_vph.den
       /\ c.processed_occ_upstream_percent.num
              = 120 * c.processed_occ_upstream_percent.den
       /\ c.processed_speed_upstream_mps.num = 48 * c.processed_speed_upstream_mps.den
       /\ c.processed_ramp_queue_veh.num = 26 * c.processed_ramp_queue_veh.den
       /\ state[1] = Whole(1) /\ state[3] = Whole(1)
       /\ state[4] = Whole(1) /\ state[7] = Whole(1)

\* C19: aggregating an empty group sends no query and yields flow 0,
\* occupancy 0 and mean speed 0, for any window length; so does the
\* aggregation of the downstream group when the downstream edge has no loop.
C19_EmptyGroupIsZero ==
    /\ \A window \in {0 - 1, 0, 1, CYCLE_DURATION_SEC, 3600} :
           /\ GetLoopsFlowInterval(<<>>, window) = Zero
           /\ LoopQueries(<<>>, window) = 0
    /\ GetLoopsOccupancyInterval(<<>>) = Zero
    /\ GetLoopsFlowWeightedMeanSpeed(<<>>) = Zero
    /\ (variant = "Learned" /\ lastOp # "init" /\ outcome = "ok" /\ detectors.ds = <<>>) =>
           /\ ctl.processed_mainline_flow_downstream_vph = Zero
           /\ ctl.processed_occ_downstream_percent = Zero
           /\ ctl.processed_mainline_speed_downstream_mps = Zero
           /\ hist.ds_queries = 0

C19_Witness ==
    /\ lastOp = "step" /\ outcome = "ok"
    /\ detectors.ds = <<>>
    /\ ctl.processed_flow_upstream_vph # Zero
    /\ ctl.processed_mainline_flow_downstream_vph = Zero
    /\ hist.ds_queries = 0

\* the sum of f over the indices in S
RECURSIVE SumOver(_, _)
SumOver(S, f) ==
    IF S = {}
    THEN 0
    ELSE LET i == CHOOSE x \in S : TRUE
         IN f[i] + SumOver(S \ {i}, f)

\* what the claim says the aggregation of a group yields
ExpectedOfGroup(loops) ==
    LET ok == {i \in DOMAIN loops : ~loops[i].fails}
        seen == {i \in ok : loops[i].step_count > 0 /\ loops[i].step_speed >= 0}
    IN [flow |-> IF ok = {}
                 THEN Zero
                 ELSE Ratio(SumOver(ok, [i \in ok |-> loops[i].interval_count]) * 3600,
                            CYCLE_DURATION_SEC),
        occ |-> IF ok = {}
                THEN Zero
                ELSE Ratio(SumOver(ok, [i \in ok |-> loops[i].interval_occ]),
                           Cardinality(ok) * OccUnits),
        speed |-> IF seen = {}
                  THEN Zero
                  ELSE Ratio(SumOver(seen, [i \in seen |->
                                               loops[i].step_speed * loops[i].step_count]),
                             SumOver(seen, [i \in seen |-> loops[i].step_count]))]

\* C20: whichever loops of a group fail, the aggregation does not raise and
\* runs over the others: the occupancy is the mean over the loops that
\* answer, the flow their counts * 3600 / window, every metric 0 when none
\* answers; and an on-ramp count that cannot be read is taken as 0.
C20_FailingSensorsSkipped ==
    (variant = "Learned" /\ lastOp # "init") =>
        /\ outcome = "raised" => hist.tick_failed
        /\ outcome = "ok" =>
               /\ ctl.processed_flow_upstream_vph = ExpectedOfGroup(detectors.up).flow
               /\ ctl.processed_occ_upstream_percent = ExpectedOfGroup(detectors.up).occ
               /\ ctl.processed_speed_upstream_mps = ExpectedOfGroup(detectors.up).speed
               /\ ctl.processed_flow_merging_vph = ExpectedOfGroup(detectors.bn).flow
               /\ ctl.processed_occ_bottleneck_percent = ExpectedOfGroup(detectors.bn).occ
               /\ ctl.processed_speed_bottleneck_mps = ExpectedOfGroup(detectors.bn).speed
               /\ ctl.processed_mainline_flow_downstream_vph
                      = ExpectedOfGroup(detectors.ds).flow
               /\ ctl.processed_occ_downstream_percent = ExpectedOfGroup(detectors.ds).occ
               /\ ctl.processed_mainline_speed_downstream_mps
                      = ExpectedOfGroup(detectors.ds).speed
               /\ detectors.ramp.fails =>
                      /\ ctl.sum_queue = 0
                      /\ \A i \in DOMAIN trace :
                             trace[i][1] = "queueSample" => trace[i][2] = 0

C20_Witness ==
    /\ lastOp = "step" /\ outcome = "ok"
    /\ detectors.up[1].fails /\ ~detectors.up[2].fails /\ ~detectors.up[3].fails
    /\ \A i \in DOMAIN detectors.ds : detectors.ds[i].fails
    /\ detectors.ds # <<>>
    /\ detectors.ramp.fails
    /\ ctl.processed_occ_upstream_percent = Ratio(180 * OccUnits, 2 * OccUnits)
    /\ ctl.processed_flow_upstream_vph = Ratio(120 * 3600, CYCLE_DURATION_SEC)
    /\ ctl.processed_occ_downstream_percent = Zero
    /\ Count("queueSample") = 40

\* a controller as its constructor leaves it, about to be reset for the
\* first time on a simulator that neither finishes nor fails
Constructed ==
    [c |-> NewController(variant, ramp_meter_id),
     s |-> [time |-> 0, ended |-> FALSE, phase |-> -1],
     h |-> NewHist, tr |-> <<>>, raised |-> FALSE,
     endAt |-> Never, faultAt |-> Never, q |-> 0]

\* reset() of the variant constructed
ResetOf(m, reading) ==
    CASE variant = "Learned" -> RLResetBody(m)
      [] variant = "Alinea" -> AlineaResetBody(m, reading)
      [] variant = "PiAlinea" -> PiAlineaResetBody(m, reading)
      [] variant = "FixedCycle" -> FixedCycleResetBody(m)
      [] variant = "AlwaysGreen" -> AlwaysGreenResetBody(m)

\* the controller's fields, the count of episodes left out
EpisodeState(c) == [c EXCEPT !.ep_count = 0]

\* C21: whatever the previous episode did, the controller's fields right
\* after reset() are those a freshly constructed controller has after its
\* first reset() with the same sensor readings.
C21_ResetForgetsEpisode ==
    (lastOp = "reset" /\ outcome = "ok") =>
        EpisodeState(ctl) = EpisodeState(ResetOf(Constructed, hist.reset_reading).c)

C21_Witness ==
    /\ variant = "PiAlinea" /\ HasSignal /\ ds_detectors
    /\ lastOp = "reset" /\ outcome = "ok"
    /\ ctl.ep_count = 2
    /\ hist.prior.ran
    /\ hist.prior.rate = MIN_METERING_RATE_VPH
    /\ hist.reset_reading = CRITICAL_OCCUPANCY_PERCENT
    /\ ctl.current_metering_rate_vph = (MIN_METERING_RATE_VPH + MAX_METERING_RATE_VPH) \div 2
    /\ ctl.prev_measured_downstream_occ = CRITICAL_OCCUPANCY_PERCENT
    /\ ctl.time_in_current_phase_segment_sec = 0

\* the commands the last operation sent to the signal, in order
IsPhaseCommand(e) == e[1] \in {"setPhase", "setPhaseDuration"}

PhaseCommands == SelectSeq(trace, IsPhaseCommand)

\* the variants whose reset() starts the phase scheduler in Red
StartsInRed == variant \in {"Learned", "Alinea", "PiAlinea"}

\* C22 as claimed: when reset() returns, the last phase commanded is Red for
\* a whole cycle, the scheduler is in its Red segment and no timing decision
\* has been taken yet.
C22_ResetReturnsInRed ==
    (StartsInRed /\ HasSignal /\ lastOp = "reset" /\ outcome = "ok") =>
        /\ sim.phase = red_phase_index
        /\ PhaseCommands[Len(PhaseCommands)] = <<"setPhaseDuration", CYCLE_LENGTH_SEC>>
        /\ FeedbackVariant => ~ctl.is_in_green_phase_segment
        /\ hist.updates = 0

\* C22 amended: reset() first commands Red for a whole cycle; on the learned
\* path that is the state in which it returns, the first decision being left
\* to the first step(); on the ALINEA and PI-ALINEA paths reset() then takes
\* the first decision itself and returns in the Green segment, Green
\* commanded for the green time it computed.
C22_InitialRedThenDecision ==
    (StartsInRed /\ HasSignal /\ lastOp = "reset" /\ outcome = "ok") =>
        /\ Len(PhaseCommands) >= 2
        /\ PhaseCommands[1] = <<"setPhase", red_phase_index>>
        /\ PhaseCommands[2] = <<"setPhaseDuration", CYCLE_LENGTH_SEC>>
        /\ variant = "Learned" =>
               /\ Len(PhaseCommands) = 2
               /\ sim.phase = red_phase_index
        /\ FeedbackVariant =>
               /\ Len(PhaseCommands) = 4
               /\ PhaseCommands[3] = <<"setPhase", green_phase_index>>
               /\ PhaseCommands[4] = <<"setPhaseDuration", ctl.current_green_time_sec>>
               /\ sim.phase = green_phase_index
               /\ ctl.is_in_green_phase_segment
               /\ hist.updates = 1
               /\ Count("simulationStep") = 0

C22_Witness ==
    /\ variant = "Alinea" /\ HasSignal /\ ds_detectors
    /\ lastOp = "reset" /\ outcome = "ok"
    /\ hist.reset_reading = 0
    /\ PhaseCommands = << <<"setPhase", red_phase_index>>,
                          <<"setPhaseDuration", CYCLE_LENGTH_SEC>>,
                          <<"setPhase", green_phase_index>>,
                          <<"setPhaseDuration", CYCLE_LENGTH_SEC>> >>
    /\ ctl.is_in_green_phase_segment

\* C23: every episode terminates: once reset() has returned, the caller's
\* repeated step() calls eventually yield done = true, in every variant,
\* with or without a signal.
C23_EveryEpisodeTerminates ==
    (lastOp = "reset" /\ outcome = "ok") ~> done

\* the rate reset() stores before the first decision of the episode
InitialRate == (MIN_METERING_RATE_VPH + MAX_METERING_RATE_VPH) \div 2

\* the operation that is returning made a rate update
UpdateMade == lastOp' = "reset" \/ (lastOp' = "step" /\ hist'.updates = hist.updates + 1)

\* the rate the update started from: what reset() has just stored, or what
\* the object held when step() was called
RateBefore == IF lastOp' = "reset" THEN InitialRate ELSE ctl.current_metering_rate_vph

\* the occupancy the update read: the loops' last-interval occupancy, the
\* critical occupancy when the downstream group is empty
OccRead == IF ds_detectors THEN ctl'.last_measured_downstream_occ
           ELSE CRITICAL_OCCUPANCY_PERCENT

\* green is rate * cycle / 3600 / sat_flow clipped to [MIN_GREEN, cycle - MIN_RED]
GreenOfRate(green, rate) ==
    LET scaled == rate * CYCLE_LENGTH_SEC * SatFlowDen
        k == 3600 * SatFlowNum
    IN IF scaled <= MIN_GREEN_TIME_SEC * k
       THEN green = MIN_GREEN_TIME_SEC
       ELSE IF scaled >= (CYCLE_LENGTH_SEC - MIN_RED_TIME_SEC) * k
            THEN green = CYCLE_LENGTH_SEC - MIN_RED_TIME_SEC
            ELSE green * k = scaled

\* rates and saturation flows (numerators over SatFlowDen) the guard is tried on
GuardRates == {MIN_METERING_RATE_VPH, InitialRate, MAX_METERING_RATE_VPH}

NoSatFlow == {0, -1}

\* C24: every ALINEA update, in reset() and in step(), stores
\* rate = clip(rate before + 60 * (16.5 - occupancy read), rate_min, rate_max)
\* and green = clip(rate * cycle / 3600 / sat_flow, green_min, cycle - red_min);
\* with a saturation flow of 0 or less the calculated green is green_min.
C24_AlineaUpdate ==
    [][(variant = "Alinea" /\ HasSignal /\ UpdateMade) =>
          /\ ctl'.current_metering_rate_vph * OccUnits =
                 Clip(RateBefore * OccUnits + 60 * (33 - OccRead),
                      MIN_METERING_RATE_VPH * OccUnits, MAX_METERING_RATE_VPH * OccUnits)
          /\ GreenOfRate(ctl'.current_green_time_sec, ctl'.current_metering_rate_vph)
          /\ \A r \in GuardRates, n \in NoSatFlow :
                 CalculatedGreenAt(r, n, SatFlowDen) = MIN_GREEN_TIME_SEC]_vars

C24_Witness ==
    /\ variant = "Alinea" /\ HasSignal /\ ds_detectors
    /\ lastOp = "step" /\ hist.updates = 2 /\ hist.ticks_since_update = 1
    /\ ctl.last_measured_downstream_occ = 40
    /\ ctl.current_metering_rate_vph = 1290
    /\ ctl.current_green_time_sec = 1290 * 40

\* Occ(k-2) of the update: the critical occupancy reset() has just stored, or
\* the lag occupancy the object held when step() was called
LagBefore == IF lastOp' = "reset" THEN CRITICAL_OCCUPANCY_PERCENT
             ELSE ctl.prev_measured_downstream_occ

\* C25: every PI-ALINEA update, in reset() and in step(), stores
\* rate = clip(rate before + 60 * (Occ(k-2) - occupancy read)
\*                          + 20 * (16.5 - occupancy read), rate_min, rate_max)
\* and the occupancy read as the next Occ(k-2); Occ(k-2) is 16.5 at the update
\* inside reset(), and no operation without an update changes it.
C25_PiAlineaUpdate ==
    [][(variant = "PiAlinea" /\ HasSignal) =>
          IF UpdateMade
          THEN /\ ctl'.current_metering_rate_vph * OccUnits =
                      Clip(RateBefore * OccUnits + 60 * (LagBefore - OccRead)
                                                 + 20 * (33 - OccRead),
                           MIN_METERING_RATE_VPH * OccUnits,
                           MAX_METERING_RATE_VPH * OccUnits)
               /\ ctl'.prev_measured_downstream_occ = OccRead
               /\ hist'.occ_before = LagBefore
          ELSE ctl'.prev_measured_downstream_occ = ctl.prev_measured_downstream_occ]_vars

C25_Witness ==
    /\ variant = "PiAlinea" /\ HasSignal /\ ds_detectors
    /\ lastOp = "step" /\ hist.updates = 2 /\ hist.ticks_since_update = 1
    /\ hist.occ_before = 16
    /\ ctl.prev_measured_downstream_occ = 40
    /\ ctl.current_metering_rate_vph = 880

\* one tick, in the units of the timers
TickUnits == sim_step_length * SecUnits

\* ticks of a whole cycle
CycleTicks == CYCLE_LENGTH_SEC \div TickUnits

\* a step() of ALINEA / PI-ALINEA with a signal is returning
FeedbackStepReturns == FeedbackVariant /\ HasSignal /\ lastOp' = "step" /\ outcome' = "ok"

\* that step() began a cycle with a rate update
UpdatedInStep == hist'.updates = hist.updates + 1

\* Green was the phase when step() came to its switch
GreenAtCheck == UpdatedInStep \/ sim.phase = green_phase_index

\* the time spent under Green in the cycle when step() came to its switch
ElapsedAtCheck == IF UpdatedInStep THEN 0 ELSE hist.green_ticks * TickUnits

\* that step() commanded Red
RedCommanded ==
    hist'.red_commands = (IF UpdatedInStep THEN 0 ELSE hist.red_commands) + 1

\* the phase commands a step() may issue: Green for g when it updates, then
\* Red for the rest of the cycle when it switches
CommandsOfStep ==
    (IF UpdatedInStep
     THEN << <<"setPhase", green_phase_index>>,
             <<"setPhaseDuration", ctl'.current_green_time_sec>> >>
     ELSE << >>)
    \o (IF RedCommanded
        THEN << <<"setPhase", red_phase_index>>,
                <<"setPhaseDuration", CYCLE_LENGTH_SEC - ctl'.current_green_time_sec>> >>
        ELSE << >>)

\* every step(): Red is commanded iff the phase is Green and the time under
\* Green has reached g, nothing else is commanded but the Green of an update,
\* and Red once commanded stays
SwitchAtEveryStep ==
    /\ RedCommanded <=> (GreenAtCheck /\ ElapsedAtCheck >= ctl'.current_green_time_sec)
    /\ SelectSeq(trace', IsPhaseCommand) = CommandsOfStep
    /\ sim'.phase = IF GreenAtCheck /\ ~RedCommanded
                    THEN green_phase_index ELSE red_phase_index

\* the step() is closing a cycle that an update made in a step() had begun
ClosesCycle == UpdatedInStep /\ hist.updates >= 2

FixedTicks == sim.time \div sim_step_length

\* C27: FixedCycle with a signal: from reset() on, Green holds for
\* tg_duration_steps ticks, then Red for tr_duration_steps ticks, and so on,
\* the first Green segment included: the n-th tick of an episode is made
\* under Green iff (n - 1) mod (tg + tr) < tg.
C27_FixedSegments ==
    (variant = "FixedCycle" /\ HasSignal /\ lastOp = "step" /\ outcome = "ok") =>
        sim.phase = IF (FixedTicks - 1) % (tg_duration_steps + tr_duration_steps)
                         < tg_duration_steps
                    THEN green_phase_index
                    ELSE red_phase_index

QueueSamples == {i \in DOMAIN trace : trace[i][1] = "queueSample"}

SampledSum == SumOver(QueueSamples, [i \in DOMAIN trace |-> trace[i][2]])

\* C29: on the learned path the ramp queue reported by a step() is the sum of
\* the counts sampled after each tick of that step(), one per tick, divided
\* by the cycle length; reset() samples nothing during its warm-up ticks and
\* reports 0; so no sample of an earlier operation enters.
C29_RampQueueOfCycle ==
    (variant = "Learned" /\ outcome = "ok") =>
        /\ lastOp = "step" =>
              /\ ctl.sum_queue = SampledSum
              /\ ctl.processed_ramp_queue_veh = Ratio(SampledSum, CYCLE_DURATION_SEC)
              /\ Count("queueSample") = Count("simulationStep")
              /\ \A i \in QueueSamples : trace[i - 1][1] = "simulationStep"
        /\ lastOp = "reset" =>
              /\ QueueSamples = {}
              /\ ctl.sum_queue = 0
              /\ ctl.processed_ramp_queue_veh = Ratio(0, CYCLE_DURATION_SEC)

C29_Witness ==
    /\ variant = "Learned" /\ HasSignal /\ lastOp = "step" /\ outcome = "ok"
    /\ sim.time = NumInitSteps * sim_step_length + 2 * CYCLE_DURATION_SEC
    /\ Cardinality(QueueSamples) = CYCLE_DURATION_SEC
    /\ ctl.sum_queue > 0
    /\ ctl.processed_ramp_queue_veh = Ratio(ctl.sum_queue, CYCLE_DURATION_SEC)

\* greatest common divisor, and a fraction in lowest terms
RECURSIVE Gcd(_, _)
Gcd(a, b) == IF b = 0 THEN a ELSE Gcd(b, a % b)

Reduced(x) ==
    LET g == Gcd(IF x.num < 0 THEN 0 - x.num ELSE x.num, x.den)
    IN Ratio(x.num \div g, x.den \div g)

\* the processed value each component of the observation is computed from
RawValues(c) ==
    <<c.processed_flow_upstream_vph, c.processed_flow_merging_vph,
      c.processed_occ_upstream_percent, c.processed_speed_upstream_mps,
      c.processed_occ_bottleneck_percent, c.processed_speed_bottleneck_mps,
      c.processed_ramp_queue_veh,
      c.processed_flow_lane_0_merging_vph, c.processed_flow_lane_0_upstream_vph,
      c.processed_occ_lane_0_bottleneck_percent, c.processed_speed_lane_0_bottleneck_mps,
      c.processed_occ_lane_0_upstream_percent, c.processed_speed_lane_0_upstream_mps,
      Whole(c.last_action_value_sec)>>

\* the configured maximum of the quantity of each component
ConfiguredMaxima ==
    <<MAX_FLOW_UPSTREAM_VPH, MAX_FLOW_MERGING_VPH,
      MAX_OCCUPANCY_PERCENT, FREEFLOW_SPEED_MPS,
      MAX_OCCUPANCY_PERCENT, FREEFLOW_SPEED_MPS,
      MAX_RAMP_QUEUE_VEH,
      MAX_LANE_FLOW_VPH, MAX_LANE_FLOW_VPH,
      MAX_OCCUPANCY_PERCENT, FREEFLOW_SPEED_MPS,
      MAX_OCCUPANCY_PERCENT, FREEFLOW_SPEED_MPS,
      CYCLE_DURATION_SEC>>

\* the flow, occupancy and speed components, and the flows among them
SensedComponents == {1, 2, 3, 4, 5, 6, 8, 9, 10, 11, 12, 13}

FlowComponents == {1, 2, 8, 9}

\* clip(raw / maximum, 0, 1) in lowest terms
ClippedShare(raw, maximum) ==
    IF raw.num <= 0
    THEN Ratio(0, 1)
    ELSE IF raw.num >= raw.den * maximum
         THEN Ratio(1, 1)
         ELSE Reduced(Ratio(raw.num, raw.den * maximum))

\* the controller with one flow at the configured maximum of its component
AtFullScale(c, i) ==
    CASE i = 1 -> [c EXCEPT !.processed_flow_upstream_vph = Whole(ConfiguredMaxima[1])]
      [] i = 2 -> [c EXCEPT !.processed_flow_merging_vph = Whole(ConfiguredMaxima[2])]
      [] i = 8 -> [c EXCEPT !.processed_flow_lane_0_merging_vph = Whole(ConfiguredMaxima[8])]
      [] i = 9 -> [c EXCEPT !.processed_flow_lane_0_upstream_vph = Whole(ConfiguredMaxima[9])]

\* the components of state that are clip(raw / configured maximum, 0, 1)
Normalised(c, components) ==
    {i \in components :
        Reduced(GetCurrentObservation(c)[i])
            = ClippedShare(RawValues(c)[i], ConfiguredMaxima[i])}

\* C30: after reset() and after every step(), every flow, occupancy and speed
\* component of the observation is clip(raw / configured maximum, 0, 1), and a
\* flow equal to the configured maximum of its component yields 1.
C30_ComponentsNormalised ==
    (variant = "Learned" /\ lastOp # "init" /\ outcome = "ok") =>
        /\ Normalised(ctl, SensedComponents) = SensedComponents
        /\ \A i \in FlowComponents :
               Reduced(GetCurrentObservation(AtFullScale(ctl, i))[i]) = Ratio(1, 1)

\* last-step readings of one loop: a vehicle counted with the mean speed -1,
\* and a speed reported with no vehicle counted
NoSpeed == LoopReading(FALSE, 5, 10 * OccUnits, 2, 0 - 1)

Ghost == LoopReading(FALSE, 0, 0, 0, 10)

Standing == LoopReading(FALSE, 3, 100 * OccUnits, 3, 0)

SpeedReadings == {Quiet, Flowing, Dense, NoSpeed, Ghost, Standing, Failed}

\* longest group the speed aggregation is tried on
MaxGroup == 3

\* the groups of at most MaxGroup loops over those readings
SpeedGroups == UNION {[1 .. n -> SpeedReadings] : n \in 0 .. MaxGroup}

\* the loops of a group that report a vehicle and a speed
Counted(loops) ==
    {i \in DOMAIN loops :
        ~loops[i].fails /\ loops[i].step_count > 0 /\ loops[i].step_speed >= 0}

\* sum of speed * count over sum of count, 0 when no loop reports a vehicle
MeanSpeedOf(loops) ==
    IF Counted(loops) = {}
    THEN Ratio(0, 1)
    ELSE Ratio(SumOver(Counted(loops),
                       [i \in DOMAIN loops |-> loops[i].step_speed * loops[i].step_count]),
               SumOver(Counted(loops), [i \in DOMAIN loops |-> loops[i].step_count]))

\* C31: the flow-weighted mean speed of a group is the sum of speed * count
\* over the sum of count, over the loops reporting count > 0 and speed >= 0,
\* and 0 when no loop of the group reports a vehicle: for every group of at
\* most MaxGroup loops, and for the speeds reset() and step() store.  (The
\* function does not depend on the state: the groups are gone through once,
\* in the initial states.)
C31_FlowWeightedMeanSpeed ==
    /\ lastOp = "init" =>
           \A g \in SpeedGroups : GetLoopsFlowWeightedMeanSpeed(g) = MeanSpeedOf(g)
    /\ (variant = "Learned" /\ lastOp # "init" /\ outcome = "ok") =>
           /\ ctl.processed_speed_upstream_mps = MeanSpeedOf(detectors.up)
           /\ ctl.processed_speed_bottleneck_mps = MeanSpeedOf(detectors.bn)
           /\ ctl.processed_mainline_speed_downstream_mps = MeanSpeedOf(detectors.ds)
           /\ ctl.processed_speed_lane_0_bottleneck_mps = MeanSpeedOf(<<detectors.bn[1]>>)
           /\ ctl.processed_speed_lane_0_upstream_mps = MeanSpeedOf(<<detectors.up[2]>>)

C31_Witness ==
    /\ variant = "Learned" /\ lastOp = "step" /\ outcome = "ok"
    /\ detectors.bn = BottleneckLoops
    /\ ctl.processed_speed_bottleneck_mps = Ratio(2 * 12 + 30 + 48, 4)
    /\ detectors.up[2].fails
    /\ ctl.processed_speed_lane_0_upstream_mps = Ratio(0, 1)
    /\ GetLoopsFlowWeightedMeanSpeed(<<Dense, NoSpeed, Standing>>) = Ratio(24, 5)

\* the index the menu is read at for an action index a
ClampedIndex(a) == IF a < 0 THEN 0 ELSE IF a > action_space_n - 1 THEN action_space_n - 1 ELSE a

\* the last component of the observation the last operation returned
LastComponent == GetCurrentObservation(ctl)[observation_space_n]

\* C32: the last component of the observation step(a) returns is
\* green_menu[clamp(a)] / cycle length, and that of the observation reset()
\* returns is green_menu[0] / cycle length, whatever the last action of the
\* episode before.
C32_LastActionComponent ==
    (variant = "Learned" /\ outcome = "ok") =>
        /\ lastOp = "step" =>
              LastComponent = Ratio(green_time_actions_sec[ClampedIndex(hist.action_index) + 1],
                                    CYCLE_DURATION_SEC)
        /\ lastOp = "reset" =>
              LastComponent = Ratio(green_time_actions_sec[1], CYCLE_DURATION_SEC)

C32_Witness ==
    /\ variant = "Learned" /\ lastOp = "reset" /\ outcome = "ok"
    /\ ctl.ep_count = 2
    /\ hist.prior.action = 40
    /\ LastComponent = Ratio(5, 40)

\* C33: PI-ALINEA with Kp = 0 and Ki = Kr does what ALINEA does: after
\* reset() and after every step(), on the same readings, both hold the same
\* metering rate and green/red split, have issued the same phase commands and
\* ticks in the same order, have left the simulator in the same state and
\* have returned alike.
C33_PiAlineaAsAlinea ==
    /\ ctl.a.current_metering_rate_vph = ctl.p.current_metering_rate_vph
    /\ ctl.a.current_green_time_sec = ctl.p.current_green_time_sec
    /\ ctl.a.current_red_time_sec = ctl.p.current_red_time_sec
    /\ ctl.a.is_in_green_phase_segment = ctl.p.is_in_green_phase_segment
    /\ trace.a = trace.p
    /\ sim.a = sim.p
    /\ outcome.a = outcome.p
    /\ done.a = done.p

C33_Witness ==
    /\ variant = "Pair" /\ HasSignal /\ ds_detectors /\ lastOp = "step"
    /\ ctl.p.KP = 0 /\ ctl.p.KI = KR
    /\ hist.a.updates = 3 /\ hist.p.updates = 3
    /\ hist.p.occ_before = 40
    /\ ctl.p.prev_measured_downstream_occ = 16
    /\ ctl.a.current_metering_rate_vph = 1290
    /\ ctl.p.current_metering_rate_vph = 1290
    /\ trace.p = << <<"setPhase", green_phase_index>>,
                    <<"setPhaseDuration", 1290 * 40>>,
                    <<"simulationStep", 0>> >>

\* ceil(EpisodeLen / CYCLE_DURATION_SEC)
CyclesOfEpisode == (EpisodeLen + CYCLE_DURATION_SEC - 1) \div CYCLE_DURATION_SEC

\* C34: on the learned path, the caller stopping at the first done = true, an
\* episode has at most ceil(L / 40) step() calls, and the simulated time at
\* which done is first reported is below L + 40.
C34_EpisodeWithinBound ==
    (variant = "Learned" /\ lastOp = "step" /\ outcome = "ok") =>
        /\ hist.steps <= CyclesOfEpisode
        /\ done => sim.time < EpisodeLen + CYCLE_DURATION_SEC

\* C35: the info step() of CustomEnvWrapper returns has "l" equal to the number
\* of step() calls since the last reset() and "r" equal to the sum of the
\* rewards step() returned since then, the current one included; after
\* reset() both counters are 0 and so are "l" and "r" of the info it returns.
C35_InfoCounts ==
    variant = "Wrapper" =>
        /\ lastOp = "step" =>
              /\ hist.info["l"] = hist.calls
              /\ hist.info["r"] = hist.returned
        /\ lastOp = "reset" =>
              /\ ctl.steps = 0 /\ ctl.total_reward = 0
              /\ hist.info["l"] = 0 /\ hist.info["r"] = 0

C35_Witness ==
    /\ variant = "Wrapper" /\ lastOp = "step"
    /\ ctl.custom_env.player = "Learned" /\ ~ctl.mode_train
    /\ ctl.custom_env.ep_count = 2
    /\ hist.calls = 2 /\ hist.rew = 2 /\ hist.returned = 7
    /\ hist.info["l"] = 2 /\ hist.info["r"] = 7
    /\ hist.info["episode"] = 2

\* C36: Observe with max_episodes = N > 0 runs exactly N episodes: it has
\* exited exactly when the environment has reported the end of N episodes,
\* never more; the environment was reset once at the start and once after
\* every finished episode but the N-th, after which it was closed instead;
\* and the repeat counter is 0 whenever an episode starts.
C36_ExactlyNEpisodes ==
    (variant = "Observe" /\ lastOp # "init" /\ ctl.max_episodes > 0) =>
        /\ hist.finished <= ctl.max_episodes
        /\ ctl.ep = hist.finished
        /\ outcome = "exit" <=> hist.finished = ctl.max_episodes
        /\ sim.closed <=> outcome = "exit"
        /\ sim.resets = IF outcome = "exit" THEN hist.finished ELSE hist.finished + 1
        /\ (outcome # "exit" /\ sim.steps = 0) => ctl.repeat = 0

C36_Witness ==
    /\ variant = "Observe" /\ lastOp = "loop"
    /\ ctl.max_episodes = 2 /\ hist.finished = 2
    /\ outcome = "exit" /\ sim.closed
    /\ sim.resets = 2 /\ sim.steps = 2
    /\ ctl.repeat = 0

====
